---- MODULE Spec2Model ----
(***************************************************************************)
(* Booking lifecycle of the admin backend (src/routes/bookings.js): the    *)
(* bookings table, the request handlers that write it, the gateway         *)
(* callbacks, the expiry sweeper and the room-occupancy query.             *)
(*                                                                         *)
(* A booking row keeps the columns the handlers below read or decide on;   *)
(* contact and meal columns are validated in the request and not kept.     *)
(* Dates are day numbers, amounts are whole currency units, time is in     *)
(* minutes.  A transaction token `BOOK-<uuid>` / `PAYU-<uuid>` is the pair *)
(* <<prefix, n>> with n the n-th uuid drawn.                               *)
(***************************************************************************)
EXTENDS Integers, Sequences, FiniteSets, TLC

\* ------------------------------------------------------------------ bounds
MaxBookings == 2        \* rows ever inserted (AUTO_INCREMENT ids 1..MaxBookings)
MaxTokens == 3          \* uuidv4 draws
MaxTicks == 2           \* hours the clock advances
MaxInflight == 1        \* /payments/payu requests between their two statements
MaxAccommodations == 3  \* rows the accommodations table ever held
MaxEdits == 2           \* PUT /accommodations/:id requests in flight
MaxUsers == 2           \* rows the users table ever held

\* ------------------------------------------------------- program constants
ExpiryAgeMin == 60      \* created_at < NOW() - INTERVAL 1 HOUR

VARIABLES
    bookings,        \* the bookings table: id -> row
    accommodations,  \* the accommodations table: id -> row
    nextId,          \* AUTO_INCREMENT of bookings.id
    nextTok,         \* number of the next uuid drawn
    now,             \* NOW() / new Date(), minutes
    initiating,      \* booking ids of /payments/payu requests between their
                     \* SELECT and their UPDATE
    awaiting,        \* handlers suspended at `await sendPdfEmail(...)`, their
                     \* response not sent yet
    NODE_ENV,        \* process.env.NODE_ENV
    timer,           \* the interval timer of bookingCleanup
    users,           \* the users table: id -> row
    editing,         \* PUT /accommodations/:id transactions between their
                     \* SELECT ... FOR UPDATE and their commit
    nextAccId,       \* AUTO_INCREMENT of accommodations.id
    nextUserId,      \* AUTO_INCREMENT of users.id
    resp             \* the last operation and what it answered

vars == <<bookings, accommodations, nextId, nextTok, now, initiating, awaiting,
          NODE_ENV, timer, users, editing, nextAccId, nextUserId,
          resp>>

\* ------------------------------------------------------------------ values
validStatuses == {"pending", "success", "failed", "expired"}

NoTok == <<"", 0>>
BookToken(n) == <<"BOOK", n>>
PayuToken(n) == <<"PAYU", n>>
\* a token no handler ever issued
StrayToken == <<"PAYU", 0>>

NoLoc == [outcome |-> "", tok |-> NoTok]
\* `${FRONTEND_BASE_URL}/payment/${outcome}/${txnid}`
FrontendPayment(outcome, txnid) == [outcome |-> outcome, tok |-> txnid]

\* the `booking` of an answer that carries none
NoBooking ==
    [guest_name |-> "", guest_email |-> <<>>, check_in |-> 0, check_out |-> 0, total_amount |-> 0,
     advance_amount |-> 0, accommodation_id |-> 0, adults |-> 0, rooms |-> 0]

\* msg is the body's error or message text; the model keeps the status code.
\* mail: what the handler did with sendPdfEmail ("none": not called);
\* detail: the body carries the text of the error that was caught
Answer(op, code, msg) ==
    [op |-> op, code |-> code, id |-> 0, tok |-> NoTok,
     status |-> "", loc |-> NoLoc, surl |-> NoTok, furl |-> NoTok, val |-> 0,
     date |-> 0, threw |-> "none", mail |-> "none", detail |-> FALSE,
     booking |-> NoBooking, conn |-> "none", body |-> {}]

\* /^[^\s@]+@[^\s@]+\.[^\s@]+$/ on a string given as its characters
emailRegexTest(s) ==
    \E i \in 1..Len(s) : \E j \in 1..Len(s) :
        /\ 1 < i /\ i + 1 < j /\ j < Len(s)
        /\ s[i] = "@"
        /\ s[j] = "."
        /\ \A k \in (1..Len(s)) \ {i} : s[k] \notin {"@", " "}

GoodEmail == <<"a", "@", "b", ".", "c">>
NoDotEmail == <<"a", "@", "b">>
SpaceEmail == <<"a", " ", "@", "b", ".", "c">>

\* a destructured body field: the default when the body does not carry it
Field(req, f, default) == IF f \in req.absent THEN default ELSE req[f]

\* ------------------------------------------------------------------- state
Ids == 1..MaxBookings

Envs == {"production", "development"}

\* ------------------------------------------------------- sendPdfEmail
\* sendPdfEmail once the address has passed the format test: the mail is
\* handed to the relay; a refusal is logged and rethrown; after an accepted
\* send `return info` reads a name that is declared in the two inner blocks
\* only, and the ReferenceError is logged and rethrown as well
relayOutcome(refused) == [sent |-> ~refused, threw |-> TRUE]

\* sendPdfEmail returns without sending, and without throwing, when the
\* address is missing or fails the format test
sendPdfEmail(email, refused) ==
    IF ~emailRegexTest(email) THEN [sent |-> FALSE, threw |-> FALSE]
    ELSE relayOutcome(refused)

\* what became of the mail
mailLabel(out) ==
    IF out.sent THEN "sent" ELSE IF out.threw THEN "failed" ELSE "skipped"

\* ------------------------------------------------ pool connections
\* what one call does to a handler's connection: "none" before
\* getConnection, "held" and "heldInTx" while the handler has it, "released"
\* and "releasedInTx" once it is back in the pool (the pool does not end a
\* transaction the handler left open)
ConnStep(state, op) ==
    CASE op = "get" -> "held"
      [] op = "begin" -> "heldInTx"
      [] op \in {"commit", "rollback"} ->
             IF state = "heldInTx" THEN "held" ELSE state
      [] op = "release" ->
             IF state = "heldInTx" THEN "releasedInTx" ELSE "released"

RECURSIVE ConnAfter(_, _)
ConnAfter(state, ops) ==
    IF ops = <<>> THEN state
    ELSE ConnAfter(ConnStep(state, Head(ops)), Tail(ops))

\* the connection calls that succeed on one path of a handler, folded
Conn(ops) == ConnAfter("none", ops)

\* the rows the tables hold when the server starts
InitialAccommodation(type) ==
    [type |-> type, owner_id |-> 1, name |-> "n0", price |-> 1,
     available_rooms |-> 1]

\* bcrypt.hash(password, saltRounds): the stored value is not the password
Hash(password) == "$2b$12$" \o password

InitialUser ==
    [name |-> "root", email |-> "root@x.io", phoneNumber |-> "p0",
     role |-> "admin", status |-> "active", password |-> Hash("pw0")]

InitEnv(env) ==
    /\ NODE_ENV = env
    /\ awaiting = {}
    /\ bookings = <<>>
    /\ accommodations = (1 :> InitialAccommodation("Villa"))
                        @@ (2 :> InitialAccommodation("resort"))
    /\ timer = "armed"
    /\ users = (1 :> InitialUser)
    /\ editing = {}
    /\ nextAccId = 3
    /\ nextUserId = 2
    /\ nextId = 1
    /\ nextTok = 1
    /\ now = 0
    /\ initiating = {}
    /\ resp = Answer("start", 0, "")

\* the production deployment
Init == InitEnv("production")

\* the row both INSERT statements write
NewRow(req, payment_status, payment_txn_id) ==
    [guest_name |-> req.guest_name,
     guest_email |-> Field(req, "guest_email", <<>>),
     accommodation_id |-> req.accommodation_id,
     check_in |-> req.check_in,
     check_out |-> req.check_out,
     adults |-> Field(req, "adults", 1),
     rooms |-> Field(req, "rooms", 1),
     total_amount |-> req.total_amount,
     advance_amount |-> Field(req, "advance_amount", 0),
     payment_status |-> payment_status,
     payment_txn_id |-> payment_txn_id,
     created_at |-> now]

\* ------------------------------------------------- POST / (create booking)
createRequired ==
    {"guest_name", "accommodation_id", "package_id", "check_in", "check_out",
     "total_amount"}

\* mutant: the date test with > for >=, the adults test dropped
createRejection_Lax(req) ==
    IF req.absent \cap createRequired # {}
    THEN "Missing required fields"
    ELSE IF req.check_in > req.check_out
    THEN "Check-out must be after check-in"
    ELSE IF req.total_amount <= 0 \/ Field(req, "advance_amount", 0) < 0
    THEN "Invalid amount values"
    ELSE IF Field(req, "rooms", 1) < 1
    THEN "Must have at least 1 adult and 1 room"
    ELSE ""

\* the 400 the validation answers, "" when the request passes
createRejection(req) ==
    IF req.absent \cap createRequired # {}
    THEN "Missing required fields"
    ELSE IF req.check_in >= req.check_out
    THEN "Check-out must be after check-in"
    ELSE IF req.total_amount <= 0 \/ Field(req, "advance_amount", 0) < 0
    THEN "Invalid amount values"
    ELSE IF Field(req, "adults", 1) < 1 \/ Field(req, "rooms", 1) < 1
    THEN "Must have at least 1 adult and 1 room"
    ELSE ""

\* mutant: the create handler marks the booking paid
createStatus_Paid == "success"

createStatus == "pending"

\* details: process.env.NODE_ENV === "development" ? error.message : undefined
devDetail(env) == env = "development"

\* the status code of the catch block: one answer for every error caught
createCatchCode(fail) == 500

createCatchAnswer(fail, env) ==
    [Answer("create", createCatchCode(fail), "Failed to create booking") EXCEPT
        !.threw = fail, !.detail = devDetail(env)]

\* fail: the statement that throws: "none", "begin", "insert", "dup" (the
\* INSERT throws ER_DUP_ENTRY: the token drawn is that of a row), "commit";
\* the catch block rolls back and answers
\* the connection calls of POST /: getConnection and beginTransaction come
\* before the validation, whose 400 returns leave the try block with
\* neither commit nor rollback; the catch block rolls back; finally releases
createConn(req, fail) ==
    IF fail = "begin" THEN <<"get", "rollback", "release">>
    ELSE IF createRejection(req) # "" THEN <<"get", "begin", "release">>
    ELSE IF fail # "none" THEN <<"get", "begin", "rollback", "release">>
    ELSE <<"get", "begin", "commit", "release">>

Create(req, fail) ==
    /\ UNCHANGED <<accommodations, awaiting, NODE_ENV, timer, users, editing, nextAccId, nextUserId, now, initiating>>
    /\ IF fail = "begin"
       THEN /\ resp' = [createCatchAnswer(fail, NODE_ENV) EXCEPT
                           !.conn = Conn(createConn(req, fail))]
            /\ UNCHANGED <<bookings, nextId, nextTok>>
       ELSE IF createRejection(req) # ""
       THEN /\ resp' = [Answer("create", 400, createRejection(req)) EXCEPT
                           !.conn = Conn(createConn(req, fail))]
            /\ UNCHANGED <<bookings, nextId, nextTok>>
       ELSE IF fail # "none"
       THEN /\ fail = "dup" => DOMAIN bookings # {}
            /\ resp' = [createCatchAnswer(fail, NODE_ENV) EXCEPT
                           !.conn = Conn(createConn(req, fail))]
            /\ UNCHANGED <<bookings, nextId, nextTok>>
       ELSE /\ nextId <= MaxBookings
            /\ nextTok <= MaxTokens
            /\ bookings' = bookings @@
                   (nextId :> NewRow(req, createStatus, BookToken(nextTok)))
            /\ nextId' = nextId + 1
            /\ nextTok' = nextTok + 1
            /\ resp' = [Answer("create", 200, "") EXCEPT
                           !.id = nextId,
                           !.tok = BookToken(nextTok),
                           !.status = createStatus,
                           !.conn = Conn(createConn(req, fail))]

\* --------------------------------------- POST /offline (pre-paid booking)
offlineRequired ==
    {"guest_name", "guest_email", "accommodation_id", "check_in", "check_out",
     "total_amount"}

\* !req.body[field]: absent, 0 or the empty string
Falsy(req, f) ==
    \/ f \in req.absent
    \/ req[f] = (IF f \in {"guest_name"} THEN "" ELSE
                 IF f \in {"guest_email"} THEN <<>> ELSE 0)

offlineRejection(req) ==
    IF \E f \in offlineRequired : Falsy(req, f)
    THEN "Missing required fields"
    ELSE IF ~emailRegexTest(req.guest_email)
    THEN "Invalid email format"
    ELSE LET totalGuests == Field(req, "adults", 1) + Field(req, "children", 0)
             totalFood == Field(req, "food_veg", 0) + Field(req, "food_nonveg", 0)
                          + Field(req, "food_jain", 0)
         IN IF totalFood > 0 /\ totalFood # totalGuests
            THEN "Food preferences must match total guests"
            ELSE IF req.check_in >= req.check_out
            THEN "Check-out must be after check-in"
            ELSE IF req.total_amount <= 0 \/ Field(req, "advance_amount", 0) < 0
            THEN "Invalid amount values"
            ELSE IF Field(req, "adults", 1) < 1 \/ Field(req, "rooms", 1) < 1
            THEN "Must have at least 1 adult and 1 room"
            ELSE ""

offlineStatus == "success"

\* mutant: the lookup without its WHERE clause
accommodationRows_Any(accs, id) == DOMAIN accs

\* SELECT id, type FROM accommodations WHERE id = ?
accommodationRows(accs, id) == {a \in DOMAIN accs : a = id}

\* mutant: the catch around sendPdfEmail hands the error to the outer catch
offlineAfterMail_Rethrow(threw) == IF threw THEN 500 ELSE 200

\* the status code once sendPdfEmail has returned or thrown: the inner catch
\* logs and the handler goes on to res.json
offlineAfterMail(threw) == 200

\* the connection calls of POST /offline: the connection is taken after
\* the validation, the 404 return rolls back first, the catch block rolls
\* back when it has a connection, and finally releases it
offlineConn(req, fail) ==
    IF offlineRejection(req) # "" THEN <<>>
    ELSE IF fail = "begin" THEN <<"get", "rollback", "release">>
    ELSE IF fail = "lookup"
            \/ accommodationRows(accommodations, req.accommodation_id) = {}
            \/ fail \notin {"none", "mail"}
    THEN <<"get", "begin", "rollback", "release">>
    ELSE <<"get", "begin", "commit", "release">>

\* the answer after the commit and the mail attempt
offlineAnswer(id, tok, out) ==
    [Answer("offline", offlineAfterMail(out.threw), "") EXCEPT
        !.id = id,
        !.conn = Conn(<<"get", "begin", "commit", "release">>),
        !.tok = tok,
        !.status = offlineStatus,
        !.mail = mailLabel(out)]

\* fail: "none", "begin", "lookup" (SELECT accommodations), "insert",
\* "fetch" (the two SELECTs after the INSERT), "commit", "mail" (sendPdfEmail)
CreateOffline(req, fail) ==
    /\ UNCHANGED <<accommodations, awaiting, NODE_ENV, timer, users, editing, nextAccId, nextUserId, now, initiating>>
    /\ IF offlineRejection(req) # ""
       THEN /\ resp' = Answer("offline", 400, offlineRejection(req))
            /\ UNCHANGED <<bookings, nextId, nextTok>>
       ELSE IF fail \in {"begin", "lookup"}
       THEN /\ resp' = [Answer("offline", 500, "Failed to create booking") EXCEPT
                           !.threw = fail, !.detail = devDetail(NODE_ENV),
                           !.conn = Conn(offlineConn(req, fail))]
            /\ UNCHANGED <<bookings, nextId, nextTok>>
       ELSE IF accommodationRows(accommodations, req.accommodation_id) = {}
       THEN /\ resp' = [Answer("offline", 404, "Accommodation not found") EXCEPT
                           !.conn = Conn(offlineConn(req, fail))]
            /\ UNCHANGED <<bookings, nextId, nextTok>>
       ELSE IF fail \notin {"none", "mail"}
       THEN /\ resp' = [Answer("offline", 500, "Failed to create booking") EXCEPT
                           !.threw = fail, !.detail = devDetail(NODE_ENV),
                           !.conn = Conn(offlineConn(req, fail))]
            /\ UNCHANGED <<bookings, nextId, nextTok>>
       ELSE /\ nextId <= MaxBookings
            /\ nextTok <= MaxTokens
            /\ bookings' = bookings @@
                   (nextId :> NewRow(req, offlineStatus, BookToken(nextTok)))
            /\ nextId' = nextId + 1
            /\ nextTok' = nextTok + 1
            /\ resp' = offlineAnswer(nextId, BookToken(nextTok),
                                     sendPdfEmail(req.guest_email, fail = "mail"))

\* the handler up to `await sendPdfEmail(...)` with the relay yet to answer:
\* the row is committed and no response is sent
OfflineAwaitMail(req) ==
    /\ offlineRejection(req) = ""
    /\ accommodationRows(accommodations, req.accommodation_id) # {}
    /\ nextId <= MaxBookings
    /\ nextTok <= MaxTokens
    /\ UNCHANGED <<accommodations, NODE_ENV, timer, users, editing, nextAccId, nextUserId, now, initiating>>
    /\ bookings' = bookings @@
           (nextId :> NewRow(req, offlineStatus, BookToken(nextTok)))
    /\ nextId' = nextId + 1
    /\ nextTok' = nextTok + 1
    /\ awaiting' = awaiting \cup
           {[op |-> "offline", id |-> nextId, tok |-> BookToken(nextTok)]}
    /\ resp' = [Answer("offline_await", 0, "") EXCEPT !.id = nextId]

\* ------------------------------------------------------ DELETE /delete/:id
\* an :id segment that parseInt reads as NaN
NaNId == -1

\* mutant: DELETE without its WHERE clause
deleteRow_All(bks, id) == [i \in {} |-> bks[i]]

\* DELETE FROM bookings WHERE id = ?
deleteRow(bks, id) == [i \in (DOMAIN bks) \ {id} |-> bks[i]]

\* the catch block puts error.message in the body whatever NODE_ENV is
deleteDetail(env) == TRUE

Delete(id, fail) ==
    /\ UNCHANGED <<accommodations, awaiting, NODE_ENV, timer, users, editing, nextAccId, nextUserId, nextId, nextTok, now, initiating>>
    /\ IF id = NaNId
       THEN /\ resp' = Answer("delete", 400, "Invalid booking ID")
            /\ UNCHANGED bookings
       ELSE IF fail # "none"
       THEN /\ resp' = [Answer("delete", 500, "Failed to delete booking") EXCEPT
                           !.threw = fail, !.detail = deleteDetail(NODE_ENV)]
            /\ UNCHANGED bookings
       ELSE IF id \notin DOMAIN bookings
       THEN /\ resp' = Answer("delete", 404, "Booking not found")
            /\ UNCHANGED bookings
       ELSE /\ bookings' = deleteRow(bookings, id)
            /\ resp' = [Answer("delete", 200, "Booking deleted successfully")
                           EXCEPT !.id = id]

\* ------------------------------------------------- POST /payments/payu
IsDigit(c) == c \in {"0", "1", "2", "3", "4", "5", "6", "7", "8", "9"}

\* phone.toString().replace(/\D/g, "")
cleanPhone(phone) == SelectSeq(phone, IsDigit)

payuRejection(req) ==
    IF \/ req.absent \cap {"amount", "firstname", "email", "booking_id",
                           "productinfo"} # {}
       \/ req.amount = 0
       \/ req.booking_id = 0
    THEN "Missing required payment parameters"
    ELSE IF req.amount <= 0
    THEN "Invalid amount"
    ELSE IF Len(cleanPhone(IF "phone" \in req.absent THEN <<>> ELSE req.phone)) < 10
    THEN "Valid 10-digit phone required"
    ELSE ""

\* mutant: the SELECT without its payment_status test
pendingBooking_AnyStatus(bks, booking_id) ==
    {i \in DOMAIN bks : i = booking_id}

\* SELECT id FROM bookings WHERE id = ? AND payment_status = "pending"
pendingBooking(bks, booking_id) ==
    {i \in DOMAIN bks : i = booking_id /\ bks[i].payment_status = "pending"}

\* UPDATE bookings SET payment_txn_id = ?, payment_status = "pending" WHERE id = ?
saveTxnid(bks, txnid, booking_id) ==
    [i \in DOMAIN bks |->
        IF i = booking_id
        THEN [bks[i] EXCEPT !.payment_txn_id = txnid, !.payment_status = "pending"]
        ELSE bks[i]]

\* the handler up to its first await returning: validation and the SELECT
InitiateCheck(req, fail) ==
    /\ UNCHANGED <<bookings, accommodations, awaiting, NODE_ENV, timer, users, editing, nextAccId, nextUserId, nextId, nextTok, now>>
    /\ IF payuRejection(req) # ""
       THEN /\ resp' = Answer("payu", 400, payuRejection(req))
            /\ UNCHANGED initiating
       ELSE IF fail # "none"
       THEN /\ resp' = Answer("payu", 500, "Payment initiation failed")
            /\ UNCHANGED initiating
       ELSE IF pendingBooking(bookings, req.booking_id) = {}
       THEN /\ resp' = Answer("payu", 404, "Pending booking not found")
            /\ UNCHANGED initiating
       ELSE /\ req.booking_id \notin initiating
            /\ Cardinality(initiating) < MaxInflight
            /\ initiating' = initiating \cup {req.booking_id}
            /\ resp' = [Answer("payu_select", 0, "") EXCEPT !.id = req.booking_id]

\* the rest of the handler: the token, the UPDATE and the payload
InitiateWrite(booking_id, fail) ==
    /\ booking_id \in initiating
    /\ initiating' = initiating \ {booking_id}
    /\ UNCHANGED <<accommodations, awaiting, NODE_ENV, timer, users, editing, nextAccId, nextUserId, nextId, now>>
    /\ IF fail # "none"
       THEN /\ resp' = Answer("payu", 500, "Payment initiation failed")
            /\ UNCHANGED <<bookings, nextTok>>
       ELSE /\ nextTok <= MaxTokens
            /\ LET txnid == PayuToken(nextTok)
               IN /\ bookings' = saveTxnid(bookings, txnid, booking_id)
                  /\ resp' = [Answer("payu", 200, "Payment initiated") EXCEPT
                                 !.id = booking_id,
                                 !.tok = txnid,
                                 !.surl = txnid,
                                 !.furl = txnid]
            /\ nextTok' = nextTok + 1

\* --------------------------------------- POST /success/verify/:txnid
newStatus == "success"

\* mutant: the UPDATE without its WHERE clause
successUpdate_NoWhere(bks, txnid) ==
    [i \in DOMAIN bks |-> [bks[i] EXCEPT !.payment_status = newStatus]]

\* UPDATE bookings SET payment_status = ? WHERE payment_txn_id = ?
successUpdate(bks, txnid) ==
    [i \in DOMAIN bks |->
        IF bks[i].payment_txn_id = txnid
        THEN [bks[i] EXCEPT !.payment_status = newStatus]
        ELSE bks[i]]

\* mutant: the catch block redirects like the try block
successCatchLoc_Success(txnid) == FrontendPayment(newStatus, txnid)

\* where the catch block sends the browser
successCatchLoc(txnid) == FrontendPayment("failed", txnid)

\* the bodies the gateway or anyone else posts: no hash, the hash the
\* commented-out lines would compute, another hash
NoHashBody == [hash |-> ""]
CallbackBodies == {NoHashBody, [hash |-> "computed"], [hash |-> "forged"]}

\* mutant: the comparison of the body's hash with the computed one, in force
callbackAccepted_HashChecked(body) == body.hash = "computed"

\* the test of the body before the UPDATE: the comparison is commented out
\* and the handler never reads the body
callbackAccepted(body) == TRUE

\* SELECT ... FROM bookings WHERE payment_txn_id = ?
successRows(bks, txnid) ==
    {i \in DOMAIN bks : bks[i].payment_txn_id = txnid}

\* what becomes of the confirmation mail: "none" when no booking was fetched
\* (sendPdfEmail is not called), "skipped" when sendPdfEmail returns at its
\* test of the address, else "failed" when the relay refuses the mail and
\* "sent" when it accepts it (sendPdfEmail throws in both cases)
successMail(bks, txnid, refused) ==
    IF successRows(bks, txnid) = {}
    THEN "none"
    ELSE LET bk == bks[CHOOSE i \in successRows(bks, txnid) :
                          \A j \in successRows(bks, txnid) : i <= j]
         IN mailLabel(sendPdfEmail(bk.guest_email, refused))

\* the redirect at the end of the try block, past the mail attempt
successAnswer(txnid, mail) ==
    [Answer("success_cb", 302, "") EXCEPT
        !.tok = txnid,
        !.loc = FrontendPayment(newStatus, txnid),
        !.mail = mail]

\* fail: "none", "update" (the UPDATE throws), "select" (a later SELECT
\* throws), "mail" (sendPdfEmail throws)
SuccessCallback(txnid, body, fail) ==
    /\ UNCHANGED <<accommodations, awaiting, NODE_ENV, timer, users, editing, nextAccId, nextUserId, nextId, nextTok, now, initiating>>
    /\ IF ~callbackAccepted(body)
       THEN /\ UNCHANGED bookings
            /\ resp' = [Answer("success_cb", 302, "") EXCEPT
                           !.tok = txnid,
                           !.loc = FrontendPayment("failed", txnid)]
       ELSE /\ bookings' = IF fail = "update" THEN bookings
                           ELSE successUpdate(bookings, txnid)
            /\ resp' = IF fail \in {"update", "select"}
                       THEN [Answer("success_cb", 302, "") EXCEPT
                                !.tok = txnid,
                                !.threw = fail,
                                !.loc = successCatchLoc(txnid)]
                       ELSE successAnswer(txnid,
                                successMail(bookings, txnid, fail = "mail"))

\* the handler up to `await sendPdfEmail(...)` with the relay yet to answer:
\* the UPDATE is done and no redirect is sent
SuccessAwaitMail(txnid, body) ==
    /\ callbackAccepted(body)
    /\ successMail(bookings, txnid, FALSE) = "sent"
    /\ UNCHANGED <<accommodations, NODE_ENV, timer, users, editing, nextAccId, nextUserId, nextId, nextTok, now, initiating>>
    /\ bookings' = successUpdate(bookings, txnid)
    /\ awaiting' = awaiting \cup
           {[op |-> "success_cb",
             id |-> CHOOSE i \in successRows(bookings, txnid) : TRUE,
             tok |-> txnid]}
    /\ resp' = [Answer("success_await", 0, "") EXCEPT !.tok = txnid]

\* the relay answers a suspended handler: sendPdfEmail throws and the
\* handler, which catches it, sends its response
MailSettles(h, refused) ==
    /\ h \in awaiting
    /\ awaiting' = awaiting \ {h}
    /\ UNCHANGED <<bookings, accommodations, NODE_ENV, timer, users, editing, nextAccId, nextUserId, nextId, nextTok, now, initiating>>
    /\ resp' = IF h.op = "offline"
               THEN offlineAnswer(h.id, h.tok, relayOutcome(refused))
               ELSE successAnswer(h.tok, mailLabel(relayOutcome(refused)))

\* ---------------------------------------- POST /failed/verify/:txnid
\* mutant: the failure callback records the failure on the booking
failedWrite_MarkFailed(bks, txnid) ==
    [i \in DOMAIN bks |->
        IF bks[i].payment_txn_id = txnid
        THEN [bks[i] EXCEPT !.payment_status = "failed"]
        ELSE bks[i]]

\* the handler runs no statement
failedWrite(bks, txnid) == bks

FailedCallback(txnid) ==
    /\ UNCHANGED <<accommodations, awaiting, NODE_ENV, timer, users, editing, nextAccId, nextUserId, nextId, nextTok, now, initiating>>
    /\ bookings' = failedWrite(bookings, txnid)
    /\ resp' = [Answer("failed_cb", 302, "") EXCEPT
                   !.tok = txnid,
                   !.loc = FrontendPayment("failed", txnid)]

\* ------------------------------------------------------- bookingCleanup
\* UPDATE bookings SET payment_status = 'expired'
\* WHERE payment_status = 'pending' AND created_at < NOW() - INTERVAL 1 HOUR
\* mutant: created_at <= NOW() - INTERVAL 1 HOUR
sweepUpdate_OrEqual(bks, t) ==
    [i \in DOMAIN bks |->
        IF bks[i].payment_status = "pending" /\ bks[i].created_at <= t - ExpiryAgeMin
        THEN [bks[i] EXCEPT !.payment_status = "expired"]
        ELSE bks[i]]

\* mutant: a sweeper that demotes in two stages, pending to failed and
\* failed to expired
sweepUpdate_Staged(bks, t) ==
    [i \in DOMAIN bks |->
        IF bks[i].created_at < t - ExpiryAgeMin
           /\ bks[i].payment_status \in {"pending", "failed"}
        THEN [bks[i] EXCEPT !.payment_status =
                  IF bks[i].payment_status = "pending" THEN "failed" ELSE "expired"]
        ELSE bks[i]]

\* mutant: the WHERE clause without its payment_status test
sweepUpdate_AnyStatus(bks, t) ==
    [i \in DOMAIN bks |->
        IF bks[i].created_at < t - ExpiryAgeMin
        THEN [bks[i] EXCEPT !.payment_status = "expired"]
        ELSE bks[i]]

sweepUpdate(bks, t) ==
    [i \in DOMAIN bks |->
        IF bks[i].payment_status = "pending" /\ bks[i].created_at < t - ExpiryAgeMin
        THEN [bks[i] EXCEPT !.payment_status = "expired"]
        ELSE bks[i]]

\* mutant: an interval cleared by the catch block
afterSweepError_Stops(t) == "stopped"

\* the catch block of the interval callback only logs: setInterval keeps
\* the timer, and the next run is scheduled whatever this one did
afterSweepError(t) == t

\* one run of the interval callback; a throwing UPDATE is logged
Sweep(fail) ==
    /\ timer = "armed"
    /\ UNCHANGED <<accommodations, awaiting, NODE_ENV, users, editing, nextAccId, nextUserId, nextId, nextTok, now, initiating>>
    /\ timer' = IF fail # "none" THEN afterSweepError(timer) ELSE timer
    /\ IF fail # "none"
       THEN /\ resp' = Answer("sweep", 500, "Booking cleanup error")
            /\ UNCHANGED bookings
       ELSE /\ bookings' = sweepUpdate(bookings, now)
            /\ resp' = Answer("sweep", 0, "")

\* an hour passes
Tick ==
    /\ now < MaxTicks * ExpiryAgeMin
    /\ now' = now + ExpiryAgeMin
    /\ resp' = Answer("tick", 0, "")
    /\ UNCHANGED <<bookings, accommodations, awaiting, NODE_ENV, timer, users, editing, nextAccId, nextUserId, nextId, nextTok, initiating>>

\* ------------------------------------------------------ PUT /:id/status
\* mutant: the validStatuses test dropped
statusRejection_Any(payment_status) ==
    IF payment_status = "" THEN "Payment status is required" ELSE ""

statusRejection(payment_status) ==
    IF payment_status = ""
    THEN "Payment status is required"
    ELSE IF payment_status \notin validStatuses
    THEN "Invalid payment status"
    ELSE ""

\* UPDATE bookings SET payment_status = ? WHERE id = ?
statusUpdate(bks, payment_status, id) ==
    [i \in DOMAIN bks |->
        IF i = id THEN [bks[i] EXCEPT !.payment_status = payment_status]
        ELSE bks[i]]

UpdateStatus(id, payment_status, fail) ==
    /\ UNCHANGED <<accommodations, awaiting, NODE_ENV, timer, users, editing, nextAccId, nextUserId, nextId, nextTok, now, initiating>>
    /\ IF statusRejection(payment_status) # ""
       THEN /\ resp' = Answer("status", 400, statusRejection(payment_status))
            /\ UNCHANGED bookings
       ELSE IF fail # "none"
       THEN /\ resp' = Answer("status", 500, "Failed to update payment status")
            /\ UNCHANGED bookings
       ELSE IF id \notin DOMAIN bookings
       THEN /\ resp' = Answer("status", 404, "Booking not found")
            /\ UNCHANGED bookings
       ELSE /\ bookings' = statusUpdate(bookings, payment_status, id)
            /\ resp' = [Answer("status", 200, "Payment status updated") EXCEPT
                           !.id = id, !.status = payment_status]

\* --------------------------------------------------- GET /room-occupancy
RECURSIVE SumRooms(_, _)
SumRooms(bks, ids) ==
    IF ids = {} THEN 0
    ELSE LET i == CHOOSE x \in ids : TRUE
         IN bks[i].rooms + SumRooms(bks, ids \ {i})

\* mutant: the WHERE clause without its payment_status test
occupancyRows_AnyStatus(bks, check_in, id) ==
    {i \in DOMAIN bks :
        /\ bks[i].check_in = check_in
        /\ bks[i].check_out > check_in
        /\ bks[i].accommodation_id = id}

\* WHERE payment_status = 'success' AND check_in = ? AND check_out > ?
\*   AND accommodation_id = ?
occupancyRows(bks, check_in, id) ==
    {i \in DOMAIN bks :
        /\ bks[i].payment_status = "success"
        /\ bks[i].check_in = check_in
        /\ bks[i].check_out > check_in
        /\ bks[i].accommodation_id = id}

\* SELECT COALESCE(SUM(rooms), 0) AS total_rooms
totalRooms(bks, check_in, id) == SumRooms(bks, occupancyRows(bks, check_in, id))

\* check_in = 0 stands for an absent or malformed date string
RoomOccupancy(check_in, id, fail) ==
    /\ UNCHANGED <<bookings, accommodations, awaiting, NODE_ENV, timer, users, editing, nextAccId, nextUserId, nextId, nextTok, now, initiating>>
    /\ IF check_in = 0
       THEN resp' = Answer("occupancy", 400,
                           "Valid check_in date (YYYY-MM-DD) is required")
       ELSE IF fail # "none"
       THEN resp' = [Answer("occupancy", 500,
                            "Failed to fetch room occupancy data") EXCEPT
                        !.threw = fail, !.detail = devDetail(NODE_ENV)]
       ELSE resp' = [Answer("occupancy", 200, "") EXCEPT
                        !.id = id,
                        !.date = check_in,
                        !.val = totalRooms(bookings, check_in, id)]

\* ------------------------------------------------- GET /details/:txnid
\* mutant: the SELECT without its WHERE clause
detailsRows_AnyToken(bks, txnid) == DOMAIN bks

\* SELECT ... FROM bookings WHERE payment_txn_id = ?
detailsRows(bks, txnid) ==
    {i \in DOMAIN bks : bks[i].payment_txn_id = txnid}

\* the columns the SELECT lists, of those a row keeps
detailsColumns(row) ==
    [guest_name |-> row.guest_name,
     guest_email |-> row.guest_email,
     check_in |-> row.check_in,
     check_out |-> row.check_out,
     total_amount |-> row.total_amount,
     advance_amount |-> row.advance_amount,
     accommodation_id |-> row.accommodation_id,
     adults |-> row.adults,
     rooms |-> row.rooms]

\* bookings[0] of a result set, rows in primary-key order
FirstRow(ids) == CHOOSE i \in ids : \A j \in ids : i <= j

Details(txnid, fail) ==
    /\ UNCHANGED <<bookings, accommodations, awaiting, NODE_ENV, timer, users, editing, nextAccId, nextUserId, nextId, nextTok,
                   now, initiating>>
    /\ IF fail # "none"
       THEN resp' = [Answer("details", 500, "Internal server error") EXCEPT
                        !.tok = txnid, !.threw = fail]
       ELSE IF detailsRows(bookings, txnid) = {}
       THEN resp' = [Answer("details", 404, "Booking not found") EXCEPT
                        !.tok = txnid]
       ELSE LET i == FirstRow(detailsRows(bookings, txnid))
            IN resp' = [Answer("details", 200, "") EXCEPT
                           !.tok = txnid,
                           !.id = i,
                           !.booking = detailsColumns(bookings[i])]


\* ------------------------------------------------------ POST /manualMailer
\* SELECT ... FROM bookings WHERE payment_txn_id = ?
mailerRows(bks, txn_id) ==
    {i \in DOMAIN bks : bks[i].payment_txn_id = txn_id}

\* the try block around sendPdfEmail answers 200 when it returns and the
\* catch block 500 when it throws
mailerAfterMail(out) ==
    IF out.threw
    THEN [code |-> 500, msg |-> "Failed to send email"]
    ELSE [code |-> 200, msg |-> "Email sent successfully"]

\* refused: whether the relay refuses the mail, should one be handed to it.
\* The address is passed on trimmed, which changes none of the addresses
\* used here (their blanks are inside).
ManualMailer(txn_id, refused, fail) ==
    /\ UNCHANGED <<bookings, accommodations, awaiting, NODE_ENV, timer, users, editing,
                   nextAccId, nextUserId, nextId, nextTok, now, initiating>>
    /\ resp' =
          IF txn_id = NoTok
          THEN Answer("mailer", 400, "Transaction ID (txn_id) is required")
          ELSE IF fail # "none"
          THEN [Answer("mailer", 500, "Internal server error") EXCEPT
                   !.tok = txn_id, !.threw = fail, !.detail = devDetail(NODE_ENV)]
          ELSE IF mailerRows(bookings, txn_id) = {}
          THEN [Answer("mailer", 404,
                       "Booking not found with the provided transaction ID") EXCEPT
                   !.tok = txn_id]
          ELSE LET bk == bookings[FirstRow(mailerRows(bookings, txn_id))]
               IN IF bk.accommodation_id \notin DOMAIN accommodations
                  THEN [Answer("mailer", 404, "Accommodation not found") EXCEPT
                           !.tok = txn_id]
                  ELSE IF accommodations[bk.accommodation_id].owner_id
                             \notin DOMAIN users
                  THEN [Answer("mailer", 404, "Owner not found") EXCEPT
                           !.tok = txn_id]
                  ELSE IF bk.guest_email = <<>>
                  THEN [Answer("mailer", 400, "Guest email not found for this booking") EXCEPT
                           !.tok = txn_id]
                  ELSE [Answer("mailer",
                               mailerAfterMail(sendPdfEmail(bk.guest_email, refused)).code,
                               mailerAfterMail(sendPdfEmail(bk.guest_email, refused)).msg)
                           EXCEPT
                           !.tok = txn_id,
                           !.id = FirstRow(mailerRows(bookings, txn_id)),
                           !.detail = mailerAfterMail(sendPdfEmail(bk.guest_email,
                                                      refused)).code = 500
                                      /\ devDetail(NODE_ENV),
                           !.mail = mailLabel(sendPdfEmail(bk.guest_email, refused))]

\* ------------------------------------ accommodations (routes/properties.js)
\* every variable the accommodation handlers leave alone
bookingState ==
    <<nextId, nextTok, now, initiating, awaiting, NODE_ENV, timer, users, nextUserId>>

\* SELECT ... FROM accommodations a ... WHERE a.id = ?
accommodationById(accs, id) == {i \in DOMAIN accs : i = id}

\* ------------------------------------------------------ GET /accommodations
\* the connection is taken before the try block and closed in finally
ListAccommodations(fail) ==
    /\ UNCHANGED <<bookingState, bookings, accommodations, editing, nextAccId>>
    /\ resp' = IF fail # "none"
               THEN [Answer("acc_list", 500, "Failed to fetch accommodations") EXCEPT
                        !.threw = fail, !.detail = devDetail(NODE_ENV),
                        !.conn = Conn(<<"get", "release">>)]
               ELSE [Answer("acc_list", 200, "") EXCEPT
                        !.val = Cardinality(DOMAIN accommodations),
                        !.conn = Conn(<<"get", "release">>)]

\* -------------------------------------------------- GET /accommodations/:id
\* !Number.isInteger(Number(id)) || Number(id) < 0
getIdRejection(id) ==
    IF id = NaNId \/ id < 0 THEN "Invalid accommodation ID format" ELSE ""

GetAccommodation(id, fail) ==
    /\ UNCHANGED <<bookingState, bookings, accommodations, editing, nextAccId>>
    /\ resp' = IF getIdRejection(id) # ""
               THEN [Answer("acc_get", 400, getIdRejection(id)) EXCEPT !.id = id]
               ELSE IF fail # "none"
               THEN [Answer("acc_get", 500, "Failed to fetch accommodation") EXCEPT
                        !.id = id, !.threw = fail, !.detail = devDetail(NODE_ENV),
                        !.conn = Conn(<<"get", "release">>)]
               ELSE IF accommodationById(accommodations, id) = {}
               THEN [Answer("acc_get", 404, "Accommodation not found") EXCEPT
                        !.id = id, !.conn = Conn(<<"get", "release">>)]
               ELSE [Answer("acc_get", 200, "") EXCEPT
                        !.id = id, !.val = accommodations[id].price,
                        !.conn = Conn(<<"get", "release">>)]

\* ---------------------------------------------- GET /accommodations/stats
\* COUNT(*), the two SUM(CASE ...) columns, MIN(price) and MAX(price); the
\* aggregates of an empty table are NULL and AVG(price), a decimal, is left
\* out
statsRow(accs) ==
    {<<0, "total", Cardinality(DOMAIN accs)>>,
     <<0, "available",
       Cardinality({i \in DOMAIN accs : accs[i].available_rooms > 0})>>,
     <<0, "unavailable",
       Cardinality({i \in DOMAIN accs : accs[i].available_rooms = 0})>>}
    \cup {<<0, "min_price", accs[i].price>> : i \in
             {j \in DOMAIN accs : \A k \in DOMAIN accs : accs[j].price <= accs[k].price}}
    \cup {<<0, "max_price", accs[i].price>> : i \in
             {j \in DOMAIN accs : \A k \in DOMAIN accs : accs[j].price >= accs[k].price}}

\* the connection is taken inside the try block and closed on the success
\* path only
statsConn(fail) == IF fail # "none" THEN <<"get">> ELSE <<"get", "release">>

Stats(fail) ==
    /\ UNCHANGED <<bookingState, bookings, accommodations, editing, nextAccId>>
    /\ resp' = IF fail # "none"
               THEN [Answer("acc_stats", 500,
                            "Failed to fetch accommodation statistics") EXCEPT
                        !.threw = fail, !.conn = Conn(statsConn(fail))]
               ELSE [Answer("acc_stats", 200, "") EXCEPT
                        !.val = Cardinality(DOMAIN accommodations),
                        !.body = statsRow(accommodations),
                        !.conn = Conn(statsConn(fail))]

\* ----------------------------------------------------- POST /accommodations
\* !basicInfo.name || !basicInfo.type || ... || !basicInfo.price
accCreateRejection(req) ==
    IF req.name = "" \/ req.type = "" \/ req.price = 0
    THEN "Missing required fields" ELSE ""

\* the columns of the INSERT; available_rooms is not among them and takes
\* the default of the column
NewAccommodation(req) ==
    [type |-> req.type, owner_id |-> req.owner_id, name |-> req.name,
     price |-> req.price, available_rooms |-> 1]

\* the connection is taken inside the try block after the validation and
\* closed after the INSERT; the catch block answers without closing it
createAccConn(req, fail) ==
    IF accCreateRejection(req) # "" THEN <<>>
    ELSE IF fail # "none" THEN <<"get">>
    ELSE <<"get", "release">>

CreateAccommodation(req, fail) ==
    /\ UNCHANGED <<bookingState, bookings, editing>>
    /\ IF accCreateRejection(req) # ""
       THEN /\ resp' = [Answer("acc_create", 400, accCreateRejection(req)) EXCEPT
                           !.conn = Conn(createAccConn(req, fail))]
            /\ UNCHANGED <<accommodations, nextAccId>>
       ELSE IF fail # "none"
       THEN /\ resp' = [Answer("acc_create", 500, "Failed to create accommodation") EXCEPT
                           !.threw = fail, !.detail = devDetail(NODE_ENV),
                           !.conn = Conn(createAccConn(req, fail))]
            /\ UNCHANGED <<accommodations, nextAccId>>
       ELSE /\ nextAccId <= MaxAccommodations
            /\ accommodations' = accommodations @@ (nextAccId :> NewAccommodation(req))
            /\ nextAccId' = nextAccId + 1
            /\ resp' = [Answer("acc_create", 201, "Accommodation created successfully") EXCEPT
                           !.id = nextAccId,
                           !.conn = Conn(createAccConn(req, fail))]

\* ---------------------------------------------------- row locks of InnoDB
\* mutant: a plain SELECT, which takes no row lock
rowLocked_NoLock(ed, id) == FALSE

\* SELECT ... FOR UPDATE holds the row until the transaction ends: the row
\* is locked while an update that has read it has not finished
rowLocked(ed, id) == \E e \in ed : e.id = id /\ e.phase = "locked"

\* ------------------------------------------------- PUT /accommodations/:id
\* basicInfo.name ?? current.name: the body's value unless it is null or
\* undefined
Coalesce(body, f, current) == IF f \in body.has THEN body[f] ELSE current[f]

\* updateData, built from the body and from the row the SELECT returned
updateData(body, current) ==
    [name |-> Coalesce(body, "name", current),
     price |-> Coalesce(body, "price", current),
     type |-> Coalesce(body, "type", current),
     owner_id |-> Coalesce(body, "owner_id", current)]

\* updateData.capacity <= 0 || updateData.rooms <= 0 || updateData.price <= 0
updateRejection(data) ==
    IF data.price <= 0
    THEN "Capacity, rooms, and price must be positive numbers" ELSE ""

\* UPDATE accommodations SET name = ?, ..., RatePersonVilla = ? WHERE id = ?
\* (available_rooms is not among the columns)
updateWrite(accs, id, data) ==
    [i \in DOMAIN accs |->
        IF i = id
        THEN [accs[i] EXCEPT !.name = data.name, !.price = data.price,
                             !.type = data.type, !.owner_id = data.owner_id]
        ELSE accs[i]]

\* createConnection, beginTransaction and the SELECT ... FOR UPDATE, which
\* returns at once when no other transaction holds the row and waits
\* otherwise
UpdateAccSelect(id, body, fail) ==
    /\ UNCHANGED <<bookingState, bookings, accommodations, nextAccId>>
    /\ IF fail = "begin"
       THEN /\ resp' = [Answer("acc_update", 500, "Database connection failed") EXCEPT
                           !.id = id, !.threw = fail, !.conn = Conn(<<"get">>)]
            /\ UNCHANGED editing
       ELSE IF fail # "none"
       THEN /\ resp' = [Answer("acc_update", 500, "Failed to update accommodation") EXCEPT
                           !.id = id, !.threw = fail, !.detail = devDetail(NODE_ENV),
                           !.conn = Conn(<<"get", "begin", "rollback", "release">>)]
            /\ UNCHANGED editing
       ELSE IF accommodationById(accommodations, id) = {}
       THEN /\ resp' = [Answer("acc_update", 404, "Accommodation not found") EXCEPT
                           !.id = id,
                           !.conn = Conn(<<"get", "begin", "rollback", "release">>)]
            /\ UNCHANGED editing
       ELSE /\ Cardinality(editing) < MaxEdits
            /\ editing' = editing \cup
                   {[id |-> id, body |-> body, current |-> accommodations[id],
                     phase |-> IF rowLocked(editing, id) THEN "waiting" ELSE "locked",
                     waited |-> rowLocked(editing, id)]}
            /\ resp' = [Answer("acc_update_select", 0, "") EXCEPT !.id = id]

\* the lock is granted to a waiting SELECT ... FOR UPDATE, which then reads
\* the row as the transaction before it committed it
UpdateAccGranted(e) ==
    /\ e \in editing
    /\ e.phase = "waiting"
    /\ ~rowLocked(editing, e.id)
    /\ UNCHANGED <<bookingState, bookings, accommodations, nextAccId>>
    /\ IF accommodationById(accommodations, e.id) = {}
       THEN /\ editing' = editing \ {e}
            /\ resp' = [Answer("acc_update", 404, "Accommodation not found") EXCEPT
                           !.id = e.id,
                           !.conn = Conn(<<"get", "begin", "rollback", "release">>)]
       ELSE /\ editing' = (editing \ {e}) \cup
                   {[e EXCEPT !.phase = "locked",
                              !.current = accommodations[e.id]]}
            /\ resp' = [Answer("acc_update_select", 0, "") EXCEPT !.id = e.id]

\* the connection calls of the rest of the handler: the inner catch block
\* rolls back and closes, and a rollback that throws skips the close and
\* lands in the outer catch block, which has none
updateAccConn(fail) ==
    IF fail = "rollback" THEN <<"get", "begin">>
    ELSE IF fail # "none" THEN <<"get", "begin", "rollback", "release">>
    ELSE <<"get", "begin", "commit", "release">>

\* the rest of the handler: validation of the merged values, the UPDATE,
\* the commit and the answer.  fail: "none", "update", "commit", "rollback"
\* (the UPDATE throws and then the rollback of the catch block throws)
UpdateAccWrite(e, fail) ==
    /\ e \in editing
    /\ e.phase = "locked"
    /\ editing' = editing \ {e}
    /\ UNCHANGED <<bookingState, bookings, nextAccId>>
    /\ IF updateRejection(updateData(e.body, e.current)) # ""
       THEN /\ resp' = [Answer("acc_update", 400,
                               updateRejection(updateData(e.body, e.current))) EXCEPT
                           !.id = e.id,
                           !.conn = Conn(updateAccConn("validation"))]
            /\ UNCHANGED accommodations
       ELSE IF fail = "rollback"
       THEN /\ resp' = [Answer("acc_update", 500, "Database connection failed") EXCEPT
                           !.id = e.id, !.threw = fail,
                           !.conn = Conn(updateAccConn(fail))]
            /\ UNCHANGED accommodations
       ELSE IF fail # "none"
       THEN /\ resp' = [Answer("acc_update", 500, "Failed to update accommodation") EXCEPT
                           !.id = e.id, !.threw = fail, !.detail = devDetail(NODE_ENV),
                           !.conn = Conn(updateAccConn(fail))]
            /\ UNCHANGED accommodations
       ELSE IF accommodationById(accommodations, e.id) = {}
       THEN /\ resp' = [Answer("acc_update", 404, "No changes made") EXCEPT
                           !.id = e.id,
                           !.conn = Conn(updateAccConn("affectedRows"))]
            /\ UNCHANGED accommodations
       ELSE /\ accommodations' =
                   updateWrite(accommodations, e.id, updateData(e.body, e.current))
            /\ resp' = [Answer("acc_update", 200, "Accommodation updated successfully") EXCEPT
                           !.id = e.id,
                           !.val = IF e.waited THEN 1 ELSE 0,
                           !.conn = Conn(updateAccConn(fail))]

\* ---------------------- PATCH /accommodations/:id/toggle-availability
\* the connection is taken inside the try block and closed on the 404 and
\* success paths only
toggleConn(fail) == IF fail # "none" THEN <<"get">> ELSE <<"get", "release">>

\* UPDATE accommodations SET available_rooms = ? WHERE id = ?, which waits
\* for the row while another transaction holds it
ToggleAvailability(id, available, fail) ==
    /\ ~rowLocked(editing, id)
    /\ UNCHANGED <<bookingState, bookings, editing, nextAccId>>
    /\ IF fail # "none"
       THEN /\ resp' = [Answer("acc_toggle", 500, "Failed to update availability") EXCEPT
                           !.id = id, !.threw = fail, !.conn = Conn(toggleConn(fail))]
            /\ UNCHANGED accommodations
       ELSE IF accommodationById(accommodations, id) = {}
       THEN /\ resp' = [Answer("acc_toggle", 404, "Accommodation not found") EXCEPT
                           !.id = id, !.conn = Conn(toggleConn(fail))]
            /\ UNCHANGED accommodations
       ELSE /\ accommodations' =
                   [accommodations EXCEPT
                       ![id].available_rooms = IF available THEN 1 ELSE 0]
            /\ resp' = [Answer("acc_toggle", 200, "Availability updated successfully") EXCEPT
                           !.id = id, !.conn = Conn(toggleConn(fail))]

\* ---------------------------------------------- DELETE /accommodations/:id
\* !Number.isInteger(Number(id)) || id <= 0
deleteIdRejection(id) ==
    IF id = NaNId \/ id <= 0 THEN "Invalid accommodation ID format" ELSE ""

\* DELETE FROM bookings WHERE accommodation_id = ?, one of the child tables
childBookings(bks, id) == {i \in DOMAIN bks : bks[i].accommodation_id = id}

\* the tables once the child deletes, the parent delete and the commit went
\* through
deleteCommitted(bks, accs, id) ==
    [bookings |-> [i \in DOMAIN bks \ childBookings(bks, id) |-> bks[i]],
     accommodations |-> [i \in DOMAIN accs \ {id} |-> accs[i]]]

\* mutant: statements run without a transaction, so that a failure of the
\* parent delete or of the commit leaves the child deletes in place
deleteRolledBack_Partial(bks, accs, id, fail) ==
    [bookings |-> IF fail \in {"parent", "commit"}
                  THEN deleteCommitted(bks, accs, id).bookings ELSE bks,
     accommodations |-> accs]

\* the tables once connection.rollback() undid the statements of the
\* transaction
deleteRolledBack(bks, accs, id, fail) ==
    [bookings |-> bks, accommodations |-> accs]

\* the connection is taken before the try block and closed in finally
deleteAccConn(id, fail) ==
    IF deleteIdRejection(id) # "" THEN <<>>
    ELSE IF fail = "begin" THEN <<"get", "rollback", "release">>
    ELSE IF fail # "none" \/ id \notin DOMAIN accommodations
    THEN <<"get", "begin", "rollback", "release">>
    ELSE <<"get", "begin", "commit", "release">>

\* fail: "none", "begin", "select", "children" (a child delete throws
\* something else than ER_NO_SUCH_TABLE), "parent", "commit".  The SELECT
\* ... FOR UPDATE waits while another transaction holds the row.
DeleteAccommodation(id, fail) ==
    /\ ~rowLocked(editing, id)
    /\ UNCHANGED <<bookingState, editing, nextAccId>>
    /\ IF deleteIdRejection(id) # ""
       THEN /\ resp' = [Answer("acc_delete", 400, deleteIdRejection(id)) EXCEPT
                           !.id = id, !.conn = Conn(deleteAccConn(id, fail))]
            /\ UNCHANGED <<bookings, accommodations>>
       ELSE IF fail \in {"begin", "select"}
       THEN /\ resp' = [Answer("acc_delete", 500, "Failed to delete accommodation") EXCEPT
                           !.id = id, !.threw = fail,
                           !.detail = (NODE_ENV # "production"),
                           !.conn = Conn(deleteAccConn(id, fail))]
            /\ UNCHANGED <<bookings, accommodations>>
       ELSE IF accommodationById(accommodations, id) = {}
       THEN /\ resp' = [Answer("acc_delete", 404, "Accommodation not found") EXCEPT
                           !.id = id, !.conn = Conn(deleteAccConn(id, fail))]
            /\ UNCHANGED <<bookings, accommodations>>
       ELSE IF fail # "none"
       THEN /\ resp' = [Answer("acc_delete", 500, "Failed to delete accommodation") EXCEPT
                           !.id = id, !.threw = fail,
                           !.detail = (NODE_ENV # "production"),
                           !.conn = Conn(deleteAccConn(id, fail))]
            /\ bookings' = deleteRolledBack(bookings, accommodations, id, fail).bookings
            /\ accommodations' =
                   deleteRolledBack(bookings, accommodations, id, fail).accommodations
       ELSE /\ bookings' = deleteCommitted(bookings, accommodations, id).bookings
            /\ accommodations' =
                   deleteCommitted(bookings, accommodations, id).accommodations
            /\ resp' = [Answer("acc_delete", 200,
                               "Accommodation and all related data deleted successfully") EXCEPT
                           !.id = id, !.conn = Conn(deleteAccConn(id, fail))]

\* ------------------------------------------------- the router of properties.js
\* the routes of the accommodations in the order of their registration
\* (/users and /cities, registered after them, are left out)
Routes ==
    << [method |-> "GET", path |-> <<"accommodations">>, handler |-> "list"],
       [method |-> "GET", path |-> <<"accommodations", ":id">>, handler |-> "get"],
       [method |-> "POST", path |-> <<"accommodations">>, handler |-> "create"],
       [method |-> "PUT", path |-> <<"accommodations", ":id">>, handler |-> "update"],
       [method |-> "DELETE", path |-> <<"accommodations", ":id">>, handler |-> "delete"],
       [method |-> "PATCH",
        path |-> <<"accommodations", ":id", "toggle-availability">>,
        handler |-> "toggle"],
       [method |-> "GET", path |-> <<"accommodations", "stats">>, handler |-> "stats"] >>

\* a route matches a request of its method whose path has its segments, a
\* parameter segment standing for any one segment
Matches(route, method, path) ==
    /\ route.method = method
    /\ Len(route.path) = Len(path)
    /\ \A k \in 1..Len(path) : route.path[k] \in {path[k], ":id"}

\* the router runs the first registered route that matches, and none of
\* these handlers passes the request on
Dispatch(method, path) ==
    LET hits == {k \in 1..Len(Routes) : Matches(Routes[k], method, path)}
    IN IF hits = {} THEN "none"
       ELSE Routes[CHOOSE k \in hits : \A j \in hits : k <= j].handler

\* Number(id) of a path segment, NaN for one that is no numeral
ParseId(seg) ==
    CASE seg = "0" -> 0
      [] seg = "1" -> 1
      [] seg = "2" -> 2
      [] seg = "3" -> 3
      [] seg = "4" -> 4
      [] OTHER -> NaNId

\* a GET request under /admin/properties
Get(path, fail) ==
    CASE Dispatch("GET", path) = "list" -> ListAccommodations(fail)
      [] Dispatch("GET", path) = "get" -> GetAccommodation(ParseId(path[2]), fail)
      [] Dispatch("GET", path) = "stats" -> Stats(fail)
      [] Dispatch("GET", path) = "none" ->
             /\ resp' = Answer("not_found", 404, "")
             /\ UNCHANGED <<bookingState, bookings, accommodations, editing, nextAccId>>

\* --------------------------------------------- users (adminUsersRouter)
validRoles == {"admin", "manager", "staff"}

userStatuses == {"active", "inactive", "suspended"}

\* the columns of GET /
listColumns == {"name", "email", "role", "status", "phoneNumber", "password"}

\* the columns of the other SELECTs that feed a response
userColumns == {"name", "email", "role", "status", "phoneNumber"}

\* the rows of a response body: one <<id, column, value>> per cell
UserCells(us, ids, cols) == {<<i, c, us[i][c]>> : i \in ids, c \in cols}

userState == <<bookings, accommodations, nextId, nextTok, now, initiating,
               awaiting, NODE_ENV, timer, editing, nextAccId>>

\* GET /
ListUsers(fail) ==
    /\ UNCHANGED <<userState, users, nextUserId>>
    /\ resp' = IF fail # "none"
               THEN [Answer("users_list", 500, "Failed to fetch users") EXCEPT
                        !.threw = fail, !.detail = TRUE]
               ELSE [Answer("users_list", 200, "") EXCEPT
                        !.body = UserCells(users, DOMAIN users, listColumns)]

\* GET /:id
GetUser(id, fail) ==
    /\ UNCHANGED <<userState, users, nextUserId>>
    /\ resp' = IF fail # "none"
               THEN [Answer("users_get", 500, "Failed to fetch user") EXCEPT
                        !.id = id, !.threw = fail, !.detail = TRUE]
               ELSE IF id \notin DOMAIN users
               THEN [Answer("users_get", 404, "User not found") EXCEPT !.id = id]
               ELSE [Answer("users_get", 200, "") EXCEPT
                        !.id = id, !.body = UserCells(users, {id}, userColumns)]

\* the rejections of POST / in the order of the handler
userCreateRejection(us, req) ==
    IF \E f \in {"name", "email", "phoneNumber", "role", "status", "password"} :
          req[f] = ""
    THEN [code |-> 400, error |-> "Missing required fields"]
    ELSE IF req.role \notin validRoles
    THEN [code |-> 400, error |-> "Invalid role"]
    ELSE IF req.status \notin userStatuses
    THEN [code |-> 400, error |-> "Invalid status"]
    ELSE IF \E i \in DOMAIN us :
               us[i].email = req.email \/ us[i].phoneNumber = req.phoneNumber
    THEN [code |-> 409, error |-> "Email or phone number already exists"]
    ELSE [code |-> 0, error |-> ""]

\* the catch blocks of POST / and PUT /:id: 409 for ER_DUP_ENTRY
userCatch(op, fail, msg) ==
    IF fail = "dup"
    THEN [Answer(op, 409, "Email or phone number already exists") EXCEPT !.threw = fail]
    ELSE [Answer(op, 500, msg) EXCEPT !.threw = fail, !.detail = TRUE]

\* POST /
CreateUser(req, fail) ==
    /\ UNCHANGED userState
    /\ IF userCreateRejection(users, req).code # 0
       THEN /\ resp' = Answer("users_create", userCreateRejection(users, req).code,
                              userCreateRejection(users, req).error)
            /\ UNCHANGED <<users, nextUserId>>
       ELSE IF fail # "none"
       THEN /\ resp' = userCatch("users_create", fail, "Failed to create user")
            /\ UNCHANGED <<users, nextUserId>>
       ELSE /\ nextUserId <= MaxUsers
            /\ users' = users @@
                   (nextUserId :> [name |-> req.name, email |-> req.email,
                                   phoneNumber |-> req.phoneNumber,
                                   role |-> req.role, status |-> req.status,
                                   password |-> Hash(req.password)])
            /\ nextUserId' = nextUserId + 1
            /\ resp' = [Answer("users_create", 201, "") EXCEPT
                           !.id = nextUserId,
                           !.body = UserCells(users', {nextUserId}, userColumns)]

\* the rejections of PUT /:id in the order of the handler; a field that is
\* falsy counts as not provided
userUpdateRejection(us, id, req) ==
    IF id \notin DOMAIN us
    THEN [code |-> 404, error |-> "User not found"]
    ELSE IF req.role # "" /\ req.role \notin validRoles
    THEN [code |-> 400, error |-> "Invalid role"]
    ELSE IF req.status # "" /\ req.status \notin userStatuses
    THEN [code |-> 400, error |-> "Invalid status"]
    ELSE IF req.email # "" /\ \E i \in DOMAIN us : i # id /\ us[i].email = req.email
    THEN [code |-> 409, error |-> "Email already exists"]
    ELSE IF req.phoneNumber # ""
            /\ \E i \in DOMAIN us : i # id /\ us[i].phoneNumber = req.phoneNumber
    THEN [code |-> 409, error |-> "Phone number already exists"]
    ELSE IF \A f \in {"name", "email", "phoneNumber", "role", "status", "password"} :
               req[f] = ""
    THEN [code |-> 400, error |-> "No fields to update"]
    ELSE [code |-> 0, error |-> ""]

\* UPDATE users SET <the fields provided> WHERE id = ?
userUpdate(us, id, req) ==
    [i \in DOMAIN us |->
        IF i # id THEN us[i]
        ELSE [f \in DOMAIN us[i] |->
                 IF req[f] = "" THEN us[i][f]
                 ELSE IF f = "password" THEN Hash(req[f])
                 ELSE req[f]]]

\* PUT /:id
UpdateUser(id, req, fail) ==
    /\ UNCHANGED <<userState, nextUserId>>
    /\ IF userUpdateRejection(users, id, req).code # 0
       THEN /\ resp' = [Answer("users_update", userUpdateRejection(users, id, req).code,
                               userUpdateRejection(users, id, req).error) EXCEPT
                           !.id = id]
            /\ UNCHANGED users
       ELSE IF fail # "none"
       THEN /\ resp' = userCatch("users_update", fail, "Failed to update user")
            /\ UNCHANGED users
       ELSE /\ users' = userUpdate(users, id, req)
            /\ resp' = [Answer("users_update", 200, "") EXCEPT
                           !.id = id,
                           !.body = UserCells(users', {id}, userColumns)]

\* DELETE /:id, which answers the id and the name of the deleted user
DeleteUser(id, fail) ==
    /\ UNCHANGED <<userState, nextUserId>>
    /\ IF fail # "none"
       THEN /\ resp' = [Answer("users_delete", 500, "Failed to delete user") EXCEPT
                           !.id = id, !.threw = fail, !.detail = TRUE]
            /\ UNCHANGED users
       ELSE IF id \notin DOMAIN users
       THEN /\ resp' = [Answer("users_delete", 404, "User not found") EXCEPT !.id = id]
            /\ UNCHANGED users
       ELSE /\ users' = [i \in DOMAIN users \ {id} |-> users[i]]
            /\ resp' = [Answer("users_delete", 200, "User deleted successfully") EXCEPT
                           !.id = id,
                           !.body = UserCells(users, {id}, {"name"})]

\* PATCH /:id/status
PatchUserStatus(id, status, fail) ==
    /\ UNCHANGED <<userState, nextUserId>>
    /\ IF status = ""
       THEN /\ resp' = [Answer("users_status", 400, "Status is required") EXCEPT !.id = id]
            /\ UNCHANGED users
       ELSE IF status \notin userStatuses
       THEN /\ resp' = [Answer("users_status", 400, "Invalid status") EXCEPT !.id = id]
            /\ UNCHANGED users
       ELSE IF fail # "none"
       THEN /\ resp' = [Answer("users_status", 500, "Failed to update user status") EXCEPT
                           !.id = id, !.threw = fail, !.detail = TRUE]
            /\ UNCHANGED users
       ELSE IF id \notin DOMAIN users
       THEN /\ resp' = [Answer("users_status", 404, "User not found") EXCEPT !.id = id]
            /\ UNCHANGED users
       ELSE /\ users' = [users EXCEPT ![id].status = status]
            /\ resp' = [Answer("users_status", 200, "") EXCEPT
                           !.id = id,
                           !.body = UserCells(users', {id}, userColumns)]

\* ------------------------------------------------------------ the requests
BaseRequest ==
    [absent |-> {}, guest_name |-> "Asha", guest_email |-> GoodEmail,
     accommodation_id |-> 1, package_id |-> 1, check_in |-> 1, check_out |-> 2,
     adults |-> 1, children |-> 0, rooms |-> 1,
     food_veg |-> 0, food_nonveg |-> 0, food_jain |-> 0,
     total_amount |-> 1, advance_amount |-> 0]

\* bodies that each break one rule of a validation
BrokenRequests ==
    {[BaseRequest EXCEPT !.check_out = 1],
     [BaseRequest EXCEPT !.adults = 0],
     [BaseRequest EXCEPT !.total_amount = 0],
     [BaseRequest EXCEPT !.absent = {"total_amount"}],
     [BaseRequest EXCEPT !.guest_email = NoDotEmail],
     [BaseRequest EXCEPT !.accommodation_id = 3]}

LifecycleRequests ==
    {BaseRequest,
     [BaseRequest EXCEPT !.check_out = 1],
     [BaseRequest EXCEPT !.accommodation_id = 3]}

\* every body with no statement throwing, and a body with each statement throwing
CreateInputs(requests) ==
    (requests \X {"none"}) \cup ({BaseRequest} \X {"begin", "insert", "commit"})

OfflineInputs(requests) ==
    (requests \X {"none"})
    \cup ({BaseRequest} \X {"begin", "lookup", "insert", "fetch", "commit"})

TenDigits == [i \in 1..10 |-> "9"]
NineDigits == [i \in 1..9 |-> "9"]
DashedPhone == <<"9", "9", "9", "-", "9", "9", "9", "-", "9", "9", "9", "9">>
\* "+91" and ten digits: twelve digits once cleaned
PrefixedPhone == <<"+", "9", "1">> \o TenDigits

BasePayu == [absent |-> {}, amount |-> 1, phone |-> TenDigits, booking_id |-> 1]

\* a well-formed /payments/payu body for booking b
PayuFor(b) == [BasePayu EXCEPT !.booking_id = b]

PayuRequests ==
    {[BasePayu EXCEPT !.booking_id = b] : b \in 1..(MaxBookings + 1)}
    \cup {[BasePayu EXCEPT !.amount = am] : am \in {-1, 0}}
    \cup {[BasePayu EXCEPT !.phone = ph] : ph \in {NineDigits, DashedPhone, PrefixedPhone}}
    \cup {[BasePayu EXCEPT !.absent = {"phone"}]}

PayuInputs == (PayuRequests \X {"none"}) \cup {<<BasePayu, "db">>}

\* the tokens the rows carry, the first token issued (a row may have dropped
\* it since) and one never issued
CallbackTokens ==
    {bookings[i].payment_txn_id : i \in DOMAIN bookings}
    \cup {BookToken(1), StrayToken}

StatusInputs ==
    ((1..(MaxBookings + 1)) \X validStatuses \X {"none"})
    \cup {<<1, "", "none">>, <<1, "refunded", "none">>, <<1, "success", "db">>}

Failing == {"none", "db"}

\* ------------------------------------------------------ the specifications
\* every handler that writes the bookings table, the sweeper and the clock
\* the requests of the whole router with one failing statement each
LifecycleInputs ==
    (LifecycleRequests \X {"none"}) \cup {<<BaseRequest, "insert">>}

LifecyclePayu ==
    ({PayuFor(b) : b \in 1..(MaxBookings + 1)} \X {"none"})
    \cup {<<[BasePayu EXCEPT !.amount = 0], "none">>, <<BasePayu, "db">>}

Next ==
    \/ \E in \in LifecycleInputs : Create(in[1], in[2])
    \/ \E in \in LifecycleInputs : CreateOffline(in[1], in[2])
    \/ \E id \in Ids : Delete(id, "none")
    \/ \E in \in LifecyclePayu : InitiateCheck(in[1], in[2])
    \/ \E id \in Ids, f \in Failing : InitiateWrite(id, f)
    \/ \E t \in CallbackTokens, f \in {"none", "update"} :
          SuccessCallback(t, NoHashBody, f)
    \/ \E t \in CallbackTokens : FailedCallback(t)
    \/ \E f \in Failing : Sweep(f)
    \/ Tick
    \/ \E id \in Ids, st \in validStatuses \cup {"refunded"} :
          UpdateStatus(id, st, "none")

Spec == Init /\ [][Next]_vars

\* bodies for the two create handlers: stays of one and two nights from two
\* check-in days, each head count and amount at, below and above its limit,
\* two rules broken at once, defaults taken, and BrokenRequests
CreateRequests ==
    {[BaseRequest EXCEPT !.check_in = d[1], !.check_out = d[2]] :
        d \in {<<1, 2>>, <<1, 3>>, <<2, 3>>, <<2, 2>>, <<2, 1>>}}
    \cup {[BaseRequest EXCEPT !.rooms = n] : n \in {0, 2}}
    \cup {[BaseRequest EXCEPT !.adults = n] : n \in {-1, 2}}
    \cup {[BaseRequest EXCEPT !.total_amount = n] : n \in {-1, 2}}
    \cup {[BaseRequest EXCEPT !.advance_amount = n] : n \in {-1, 1}}
    \cup {[BaseRequest EXCEPT !.check_out = 1, !.rooms = 0],
          [BaseRequest EXCEPT !.rooms = 0, !.advance_amount = -1],
          [BaseRequest EXCEPT !.absent = {"adults", "rooms", "advance_amount"},
                              !.adults = 0, !.rooms = 0, !.advance_amount = -1],
          [BaseRequest EXCEPT !.absent = {"check_in"}],
          [BaseRequest EXCEPT !.guest_email = SpaceEmail],
          [BaseRequest EXCEPT !.food_veg = 1, !.children = 1],
          [BaseRequest EXCEPT !.food_veg = 1, !.food_jain = 1, !.children = 1]}
    \cup BrokenRequests

BeginFails == {<<[BaseRequest EXCEPT !.adults = 0], "begin">>}

\* the two create handlers alone
NextCreate ==
    \/ \E in \in CreateInputs(CreateRequests) \cup BeginFails : Create(in[1], in[2])
    \/ \E in \in OfflineInputs(CreateRequests) : CreateOffline(in[1], in[2])

SpecCreate == Init /\ [][NextCreate]_vars

\* a body that passes and one that does not
SweepRequests == {BaseRequest, [BaseRequest EXCEPT !.check_out = 1]}

\* the payment handlers and the handlers that set up the rows they meet
NextPay ==
    \/ \E req \in SweepRequests : Create(req, "none")
    \/ \E in \in PayuInputs : InitiateCheck(in[1], in[2])
    \/ \E id \in Ids, f \in Failing : InitiateWrite(id, f)
    \/ \E t \in CallbackTokens, b \in CallbackBodies,
          f \in {"none", "update", "select"} : SuccessCallback(t, b, f)
    \/ \E t \in CallbackTokens : FailedCallback(t)
    \/ \E id \in Ids, st \in validStatuses : UpdateStatus(id, st, "none")

SpecPay == Init /\ [][NextPay]_vars

\* every token a gateway callback can carry: those of CallbackTokens and
\* the tokens earlier /payments/payu requests drew, replaced or not
IssuedTokens ==
    CallbackTokens \cup {PayuToken(n) : n \in 1..(nextTok - 1)}

\* /payments/payu racing the sweeper, the success callback and the admin
\* status update
NextRace ==
    \/ Create(BaseRequest, "none")
    \/ \E req \in PayuRequests : InitiateCheck(req, "none")
    \/ \E id \in Ids : InitiateWrite(id, "none")
    \/ \E t \in IssuedTokens : SuccessCallback(t, NoHashBody, "none")
    \/ \E id \in Ids, st \in {"success", "failed"} : UpdateStatus(id, st, "none")
    \/ Sweep("none")
    \/ Tick

SpecRace == Init /\ [][NextRace]_vars

\* the sweeper, the clock and the handlers that set up the rows it meets
NextSweep ==
    \/ \E req \in SweepRequests : Create(req, "none")
    \/ \E req \in SweepRequests : CreateOffline(req, "none")
    \/ \E id \in Ids, st \in validStatuses : UpdateStatus(id, st, "none")
    \/ \E f \in Failing : Sweep(f)
    \/ Tick

SpecSweep == Init /\ [][NextSweep]_vars

\* setInterval fires the callback every thirty minutes for as long as the
\* timer is armed, and the claim is about runs in which a later sweep
\* succeeds: a successful run that has something to expire is not put off
\* for ever.  Failed runs are left unconstrained.
SpecSweepFair == SpecSweep /\ WF_vars(Sweep("none"))

\* bodies for one and for two rooms, for another accommodation and for
\* another check-in day
OccupancyRequests ==
    {BaseRequest,
     [BaseRequest EXCEPT !.rooms = 2],
     [BaseRequest EXCEPT !.accommodation_id = 2],
     [BaseRequest EXCEPT !.check_in = 2, !.check_out = 3],
     [BaseRequest EXCEPT !.check_out = 1]}

\* the occupancy query and the handlers that set up the rows it meets
NextOccupancy ==
    \/ \E req \in OccupancyRequests : Create(req, "none")
    \/ \E req \in OccupancyRequests : CreateOffline(req, "none")
    \/ \E id \in Ids, st \in validStatuses : UpdateStatus(id, st, "none")
    \/ \E d \in 0..2, a \in 1..3, f \in Failing : RoomOccupancy(d, a, f)

SpecOccupancy == Init /\ [][NextOccupancy]_vars

\* bodies that differ in each of the values the details answer shows
DetailsRequests ==
    {BaseRequest,
     [BaseRequest EXCEPT !.guest_name = "Ravi", !.check_in = 2, !.check_out = 3,
                         !.total_amount = 2, !.advance_amount = 1],
     [BaseRequest EXCEPT !.absent = {"advance_amount"}, !.advance_amount = 1,
                         !.check_out = 3],
     [BaseRequest EXCEPT !.check_out = 1]}

\* the details query and the handlers that set up and take away the rows and
\* tokens it meets
NextDetails ==
    \/ \E req \in DetailsRequests : Create(req, "none")
    \/ \E id \in Ids : Delete(id, "none")
    \/ \E in \in {<<PayuFor(b), "none">> : b \in Ids} : InitiateCheck(in[1], in[2])
    \/ \E id \in Ids : InitiateWrite(id, "none")
    \/ \E t \in CallbackTokens, f \in Failing : Details(t, f)

SpecDetails == Init /\ [][NextDetails]_vars

\* the :id segments of the administrative handlers
AdminIds == (1..(MaxBookings + 1)) \cup {NaNId}

\* the administrative handlers and the handlers that set up the rows they meet
NextAdmin ==
    \/ \E req \in SweepRequests : Create(req, "none")
    \/ \E req \in SweepRequests : CreateOffline(req, "none")
    \/ \E id \in AdminIds, f \in Failing : Delete(id, f)
    \/ \E in \in StatusInputs : UpdateStatus(in[1], in[2], in[3])

SpecAdmin == Init /\ [][NextAdmin]_vars

\* bodies for the handlers that send mail: one that passes, one for an
\* accommodation that does not exist, one with an address sendPdfEmail
\* refuses, one that fails validation
MailRequests ==
    {BaseRequest,
     [BaseRequest EXCEPT !.accommodation_id = 3],
     [BaseRequest EXCEPT !.guest_email = NoDotEmail],
     [BaseRequest EXCEPT !.check_out = 1]}

\* the handlers that call sendPdfEmail, with the relay answering at once,
\* failing, or yet to answer, and Create to set up pending rows
NextMail ==
    \/ \E req \in MailRequests : Create(req, "none")
    \/ \E req \in MailRequests, f \in {"none", "mail"} : CreateOffline(req, f)
    \/ \E req \in MailRequests : OfflineAwaitMail(req)
    \/ \E t \in CallbackTokens, f \in {"none", "select", "mail"} :
          SuccessCallback(t, NoHashBody, f)
    \/ \E t \in CallbackTokens : SuccessAwaitMail(t, NoHashBody)
    \/ \E h \in awaiting, refused \in BOOLEAN : MailSettles(h, refused)

SpecMail == Init /\ [][NextMail]_vars

\* each handler with each of its statements throwing, in both configurations
NextErrors ==
    \/ \E in \in CreateInputs(SweepRequests) \cup {<<BaseRequest, "dup">>} :
          Create(in[1], in[2])
    \/ \E in \in OfflineInputs(SweepRequests) : CreateOffline(in[1], in[2])
    \/ \E id \in AdminIds, f \in Failing : Delete(id, f)
    \/ \E in \in PayuInputs : InitiateCheck(in[1], in[2])
    \/ \E id \in Ids, f \in Failing : InitiateWrite(id, f)
    \/ \E in \in StatusInputs : UpdateStatus(in[1], in[2], in[3])
    \/ \E d \in 0..1, f \in Failing : RoomOccupancy(d, 1, f)
    \/ \E t \in CallbackTokens, f \in Failing : Details(t, f)

SpecErrors == (\E env \in Envs : InitEnv(env)) /\ [][NextErrors]_vars

\* /manualMailer over bookings whose address passes the format test of
\* sendPdfEmail and bookings whose address does not
MailerRequests ==
    {BaseRequest,
     [BaseRequest EXCEPT !.guest_email = NoDotEmail],
     [BaseRequest EXCEPT !.guest_email = SpaceEmail]}

NextMailer ==
    \/ \E req \in MailerRequests : Create(req, "none")
    \/ CreateOffline(BaseRequest, "none")
    \/ \E t \in CallbackTokens \cup {NoTok}, refused \in BOOLEAN, f \in Failing :
          ManualMailer(t, refused, f)

SpecMailer == Init /\ [][NextMailer]_vars

\* the bodies of POST /accommodations
AccRequests ==
    {[name |-> "n1", type |-> "Villa", price |-> 2, owner_id |-> 1],
     [name |-> "n1", type |-> "resort", price |-> 0, owner_id |-> 1]}

\* the bodies of PUT /accommodations/:id: the fields they carry and their
\* values
UpdateBodies ==
    {[has |-> {"name"}, name |-> "n1", price |-> 0],
     [has |-> {"price"}, name |-> "", price |-> 2],
     [has |-> {"price"}, name |-> "", price |-> 0],
     [has |-> {}, name |-> "", price |-> 0]}

\* the :id of a request: the rows there may be, one beyond them, zero and a
\* segment that is no number
AccIdInputs == (0..(MaxAccommodations + 1)) \cup {NaNId}

\* the paths of the GET requests
GetPaths ==
    {<<"accommodations">>, <<"accommodations", "1">>, <<"accommodations", "4">>,
     <<"accommodations", "stats">>, <<"stats">>}

DeleteFails == {"none", "begin", "select", "children", "parent", "commit"}

\* a body that passes the validation of PUT /accommodations/:id and one
\* that does not
PropsBodies ==
    {[has |-> {"name"}, name |-> "n1", price |-> 0],
     [has |-> {"price"}, name |-> "", price |-> 0]}

\* the handlers of properties.js behind their router, with the statements
\* that can throw, and the paths of the two booking handlers that take a
\* connection and insert no row
NextProps ==
    \/ \E path \in GetPaths, f \in Failing : Get(path, f)
    \/ \E req \in AccRequests, f \in Failing : CreateAccommodation(req, f)
    \/ \E id \in {1, 4}, body \in PropsBodies, f \in {"none", "begin", "select"} :
          UpdateAccSelect(id, body, f)
    \/ \E e \in editing : UpdateAccGranted(e)
    \/ \E e \in editing, f \in {"none", "update", "commit", "rollback"} :
          UpdateAccWrite(e, f)
    \/ \E id \in {1, 4}, f \in Failing : ToggleAvailability(id, FALSE, f)
    \/ \E id \in {NaNId, 1, 4}, f \in {"none", "begin", "parent"} :
          DeleteAccommodation(id, f)
    \/ \E f \in {"begin", "insert", "commit"} : Create(BaseRequest, f)
    \/ Create([BaseRequest EXCEPT !.adults = 0], "none")
    \/ \E f \in {"begin", "lookup", "insert", "commit"} : CreateOffline(BaseRequest, f)
    \/ \E req \in {[BaseRequest EXCEPT !.adults = 0],
                     [BaseRequest EXCEPT !.accommodation_id = 4]} :
          CreateOffline(req, "none")

SpecProps == Init /\ [][NextProps]_vars

\* concurrent edits of the accommodations
NextEdit ==
    \/ \E id \in DOMAIN accommodations, body \in UpdateBodies :
          UpdateAccSelect(id, body, "none")
    \/ \E e \in editing : UpdateAccGranted(e)
    \/ \E e \in editing, f \in {"none", "update"} : UpdateAccWrite(e, f)
    \/ \E id \in DOMAIN accommodations, available \in BOOLEAN :
          ToggleAvailability(id, available, "none")

SpecEdit == Init /\ [][NextEdit]_vars

\* accommodations with bookings, and their deletion
NextDelete ==
    \/ \E req \in {BaseRequest, [BaseRequest EXCEPT !.accommodation_id = 2]} :
          Create(req, "none")
    \/ CreateAccommodation([name |-> "n1", type |-> "Villa", price |-> 2,
                            owner_id |-> 1], "none")
    \/ \E id \in AccIdInputs, f \in DeleteFails : DeleteAccommodation(id, f)

SpecDelete == Init /\ [][NextDelete]_vars

\* the bodies of POST /admin/users and PUT /admin/users/:id; the empty
\* string is a field left out
BaseUser ==
    [name |-> "u", email |-> "u@x.io", phoneNumber |-> "p1", role |-> "staff",
     status |-> "active", password |-> "pw1"]

NoFields ==
    [name |-> "", email |-> "", phoneNumber |-> "", role |-> "", status |-> "",
     password |-> ""]

UserCreateBodies ==
    {BaseUser,
     [BaseUser EXCEPT !.password = ""],
     [BaseUser EXCEPT !.role = "owner"],
     [BaseUser EXCEPT !.status = "gone"],
     [BaseUser EXCEPT !.email = "root@x.io"]}

UserUpdateBodies ==
    {NoFields,
     [NoFields EXCEPT !.status = "inactive"],
     [NoFields EXCEPT !.password = "pw2"],
     [NoFields EXCEPT !.email = "root@x.io"],
     [NoFields EXCEPT !.role = "owner"]}

UserIds == 1..(MaxUsers + 1)

NextUsers ==
    \/ \E f \in Failing : ListUsers(f)
    \/ \E id \in UserIds, f \in Failing : GetUser(id, f)
    \/ \E req \in UserCreateBodies, f \in {"none", "db", "dup"} : CreateUser(req, f)
    \/ \E id \in UserIds, req \in UserUpdateBodies, f \in {"none", "db", "dup"} :
          UpdateUser(id, req, f)
    \/ \E id \in UserIds, f \in Failing : DeleteUser(id, f)
    \/ \E id \in UserIds, st \in {"", "gone", "suspended"}, f \in Failing :
          PatchUserStatus(id, st, f)

SpecUsers == Init /\ [][NextUsers]_vars

\* ================================================================== claims
\* A claim about what a handler does and answers is read for the runs in
\* which none of its database statements throws; what a handler does when
\* one throws is the subject of the claims that say so.

StatusOf(bks, i) == bks[i].payment_status
\* the bookings a step leaves in the table with another payment_status
Moved ==
    IF bookings' = bookings THEN {}
    ELSE {i \in (DOMAIN bookings) \cap (DOMAIN bookings') :
             StatusOf(bookings', i) # StatusOf(bookings, i)}

\* C1 as stated: in every step a booking's payment_status either stays or
\* goes from pending to success, failed or expired; a booking that is
\* success, failed or expired keeps its status.
C1_OnlyPendingMoves ==
    [][\A i \in Moved :
          /\ StatusOf(bookings, i) = "pending"
          /\ StatusOf(bookings', i) \in {"success", "failed", "expired"}]_vars

\* C1 amended: a booking's payment_status changes only in these four ways:
\* the sweeper moves pending to expired; the success callback moves the
\* booking carrying the token to success from whatever status it has;
\* UpdateStatus moves the addressed booking to the requested status from
\* whatever status it has; the UPDATE of /payments/payu sets the addressed
\* booking to pending.  Create, CreateOffline, Delete and the failure callback
\* never change the status of an existing booking.
C1_StatusMoves ==
    [][\A i \in Moved :
             \/ /\ resp'.op = "sweep"
                /\ StatusOf(bookings, i) = "pending"
                /\ StatusOf(bookings', i) = "expired"
             \/ /\ resp'.op = "success_cb"
                /\ bookings[i].payment_txn_id = resp'.tok
                /\ StatusOf(bookings', i) = "success"
             \/ /\ resp'.op = "status"
                /\ resp'.id = i
                /\ StatusOf(bookings', i) = resp'.status
             \/ /\ resp'.op = "payu"
                /\ resp'.id = i
                /\ StatusOf(bookings', i) = "pending"]_vars

\* a sweep has expired a booking while another booking is success
C1_Witness ==
    /\ resp.op = "sweep"
    /\ \E i \in DOMAIN bookings : StatusOf(bookings, i) = "expired"
    /\ \E i \in DOMAIN bookings : StatusOf(bookings, i) = "success"

\* C2: when Create has answered 200 the row it names is in the table with
\* payment_status "pending", and when CreateOffline has answered 200 the row
\* it names is in the table with payment_status "success"; the body of the
\* answer carries the same status.
C2_StatusAfterCreate ==
    /\ (resp.op = "create" /\ resp.code = 200)
       => /\ resp.id \in DOMAIN bookings
          /\ StatusOf(bookings, resp.id) = "pending"
          /\ resp.status = "pending"
    /\ (resp.op = "offline" /\ resp.code = 200)
       => /\ resp.id \in DOMAIN bookings
          /\ StatusOf(bookings, resp.id) = "success"
          /\ resp.status = "success"

\* CreateOffline has just answered 200 for the second row, the first row
\* having come from Create
C2_Witness ==
    /\ resp.op = "offline" /\ resp.code = 200 /\ resp.id = 2
    /\ 1 \in DOMAIN bookings
    /\ StatusOf(bookings, 1) = "pending"
    /\ StatusOf(bookings, 2) = "success"

\* the values the handler works with: the body's, or the defaults
Effective(req) ==
    [check_in |-> req.check_in, check_out |-> req.check_out,
     total_amount |-> req.total_amount,
     advance_amount |-> IF "advance_amount" \in req.absent THEN 0
                        ELSE req.advance_amount,
     adults |-> IF "adults" \in req.absent THEN 1 ELSE req.adults,
     rooms |-> IF "rooms" \in req.absent THEN 1 ELSE req.rooms]

\* the request breaks one of the five rules C3 lists
BreaksRule(req) ==
    LET e == Effective(req)
    IN \/ ~(e.check_out > e.check_in)
       \/ e.total_amount <= 0
       \/ e.advance_amount < 0
       \/ e.adults < 1
       \/ e.rooms < 1

RowObeysRules(row) ==
    /\ row.check_out > row.check_in
    /\ row.adults >= 1
    /\ row.rooms >= 1
    /\ row.total_amount > 0
    /\ row.advance_amount >= 0

\* C3: Create and CreateOffline answer 400 and leave the table as it is for
\* every body that breaks one of the rules (check-out after check-in,
\* total_amount > 0, advance_amount >= 0, adults >= 1, rooms >= 1); and every
\* row in the table obeys all five.
C3_Validation ==
    /\ [](\A i \in DOMAIN bookings : RowObeysRules(bookings[i]))
    /\ [][\A req \in CreateRequests :
            (BreaksRule(req) /\ (Create(req, "none") \/ CreateOffline(req, "none")))
            => (resp'.code = 400 /\ bookings' = bookings)]_vars

\* a rule-breaking body has just been answered 400 with two rows in the table
C3_Witness ==
    /\ resp.code = 400
    /\ resp.op \in {"create", "offline"}
    /\ DOMAIN bookings = {1, 2}
    /\ bookings[1].check_in # bookings[2].check_in

\* row i after the step is row i before it but for its payment_status
OnlyStatusSet(i, status) ==
    bookings'[i] = [bookings[i] EXCEPT !.payment_status = status]

\* C4: a success callback for token t sets payment_status to success on the
\* booking whose payment_txn_id is t, leaves every other booking as it is,
\* and answers 302 to {frontend}/payment/success/t.
C4_SuccessCallback ==
    [][(resp'.op = "success_cb" /\ resp'.threw = "none")
       => /\ DOMAIN bookings' = DOMAIN bookings
          /\ \A i \in DOMAIN bookings :
                /\ bookings[i].payment_txn_id = resp'.tok
                   => OnlyStatusSet(i, "success")
                /\ bookings[i].payment_txn_id # resp'.tok
                   => bookings'[i] = bookings[i]
          /\ resp'.code = 302
          /\ resp'.loc = [outcome |-> "success", tok |-> resp'.tok]]_vars

\* the callback has set the booking carrying its token to success while the
\* other booking is pending
C4_Witness ==
    /\ resp.op = "success_cb" /\ resp.threw = "none"
    /\ \E i \in DOMAIN bookings :
          /\ bookings[i].payment_txn_id = resp.tok
          /\ StatusOf(bookings, i) = "success"
    /\ \E j \in DOMAIN bookings :
          /\ bookings[j].payment_txn_id # resp.tok
          /\ StatusOf(bookings, j) = "pending"

\* C5: a failure callback writes nothing: the table after it is the table
\* before it, and it answers 302 to {frontend}/payment/failed/{token}.
C5_FailedCallback ==
    [][resp'.op = "failed_cb"
       => /\ bookings' = bookings
          /\ resp'.code = 302
          /\ resp'.loc = [outcome |-> "failed", tok |-> resp'.tok]]_vars

\* the failure callback has answered for the token of a pending booking
C5_Witness ==
    /\ resp.op = "failed_cb"
    /\ \E i \in DOMAIN bookings :
          /\ bookings[i].payment_txn_id = resp.tok
          /\ StatusOf(bookings, i) = "pending"

\* C6: both callbacks always answer with a 302 to a frontend payment page
\* for their token, and the success callback answers with the failed page
\* when one of its database statements has thrown.
C6_CallbacksRedirect ==
    resp.op \in {"success_cb", "failed_cb"}
    => /\ resp.code = 302
       /\ resp.loc.tok = resp.tok
       /\ resp.loc.outcome \in {"success", "failed"}
       /\ (resp.op = "success_cb" /\ resp.threw # "none")
          => resp.loc.outcome = "failed"

\* a SELECT after the UPDATE has thrown: the booking is success and the
\* browser is on the failed page
C6_Witness ==
    /\ resp.op = "success_cb" /\ resp.threw = "select"
    /\ resp.loc = [outcome |-> "failed", tok |-> resp.tok]
    /\ \E i \in DOMAIN bookings :
          /\ bookings[i].payment_txn_id = resp.tok
          /\ StatusOf(bookings, i) = "success"

\* C7: Initiate for a booking that is not in the table or is not pending
\* answers 404 and changes no booking; an Initiate that answers 200 has drawn
\* a token no booking carried, has stored it as the payment_txn_id of its
\* booking and of no other, and returns it as txnid and in both callback
\* addresses.
C7_Initiate ==
    /\ [][\A b \in 1..(MaxBookings + 1) :
            /\ InitiateCheck(PayuFor(b), "none")
            /\ (b \notin DOMAIN bookings \/ StatusOf(bookings, b) # "pending")
            => /\ resp'.code = 404
               /\ bookings' = bookings
               /\ initiating' = initiating]_vars
    /\ [][(resp'.op = "payu" /\ resp'.code = 200)
          => /\ resp'.tok[1] = "PAYU"
             /\ resp'.surl = resp'.tok /\ resp'.furl = resp'.tok
             /\ \A i \in DOMAIN bookings : bookings[i].payment_txn_id # resp'.tok
             /\ DOMAIN bookings' = DOMAIN bookings
             /\ \A i \in DOMAIN bookings :
                   IF i = resp'.id
                   THEN bookings'[i].payment_txn_id = resp'.tok
                   ELSE bookings'[i] = bookings[i]]_vars

\* Initiate has answered 200 and its booking, still pending, carries the
\* token of the answer; the other booking is not pending
C7_Witness ==
    /\ resp.op = "payu" /\ resp.code = 200
    /\ resp.id \in DOMAIN bookings
    /\ bookings[resp.id].payment_txn_id = resp.tok
    /\ StatusOf(bookings, resp.id) = "pending"
    /\ \E j \in DOMAIN bookings : StatusOf(bookings, j) # "pending"

\* pending, and created more than one hour before now
Stale(row) ==
    /\ row.payment_status = "pending"
    /\ now - row.created_at > ExpiryAgeMin

\* C8: one run of the sweeper sets payment_status to expired on exactly the
\* bookings that are pending and were created more than one hour before the
\* run; it leaves every other booking, and every other column, as it is.
C8_SweepFrame ==
    [][(resp'.op = "sweep" /\ resp'.code # 500)
       => /\ DOMAIN bookings' = DOMAIN bookings
          /\ \A i \in DOMAIN bookings :
                IF Stale(bookings[i])
                THEN OnlyStatusSet(i, "expired")
                ELSE bookings'[i] = bookings[i]]_vars

\* a sweep has run with one booking expired and another, pending, created
\* exactly one hour before
C8_Witness ==
    /\ resp.op = "sweep" /\ resp.code # 500
    /\ \E i \in DOMAIN bookings :
          /\ StatusOf(bookings, i) = "expired"
          /\ now - bookings[i].created_at > ExpiryAgeMin
    /\ \E j \in DOMAIN bookings :
          /\ StatusOf(bookings, j) = "pending"
          /\ now - bookings[j].created_at = ExpiryAgeMin

\* C9: on every table the handlers can produce, and at every time, the
\* sweeper's update applied twice gives the table it gives applied once.
C9_SweepIdempotent ==
    sweepUpdate(sweepUpdate(bookings, now), now) = sweepUpdate(bookings, now)

\* a table on which the update acts: a stale booking beside a failed one of
\* the same age
C9_Witness ==
    /\ sweepUpdate(bookings, now) # bookings
    /\ \E i \in DOMAIN bookings : Stale(bookings[i])
    /\ \E j \in DOMAIN bookings :
          /\ StatusOf(bookings, j) = "failed"
          /\ now - bookings[j].created_at > ExpiryAgeMin

\* the bookings the query is to count
Counted(check_in, id) ==
    {i \in DOMAIN bookings :
        /\ StatusOf(bookings, i) = "success"
        /\ bookings[i].accommodation_id = id
        /\ bookings[i].check_in = check_in
        /\ bookings[i].check_out > check_in}

\* one pair per room of each of them
CountedRooms(check_in, id) ==
    UNION {{<<i, k>> : k \in 1..bookings[i].rooms} : i \in Counted(check_in, id)}

\* C10: the occupancy query answers the number of rooms of the bookings of
\* the given accommodation that are success, check in on the given date and
\* check out after it (0 when there is none).
C10_Occupancy ==
    (resp.op = "occupancy" /\ resp.code = 200)
    => resp.val = Cardinality(CountedRooms(resp.date, resp.id))

\* the query has summed the rooms of two bookings
C10_Witness ==
    /\ resp.op = "occupancy" /\ resp.code = 200
    /\ resp.val = 3
    /\ Cardinality(DOMAIN bookings) = 2

\* the values of a body that the details answer is to show again
Submitted(req) ==
    [guest_name |-> req.guest_name,
     check_in |-> req.check_in,
     check_out |-> req.check_out,
     total_amount |-> req.total_amount,
     advance_amount |-> Field(req, "advance_amount", 0)]

Shown(b) ==
    [guest_name |-> b.guest_name,
     check_in |-> b.check_in,
     check_out |-> b.check_out,
     total_amount |-> b.total_amount,
     advance_amount |-> b.advance_amount]

OthersKept(i) ==
    \A j \in (DOMAIN bookings) \ {i} :
        j \in DOMAIN bookings' /\ bookings'[j] = bookings[j]

\* C12: Delete of an id no booking has answers 404 and leaves the table as it
\* is; Delete of the id of a booking answers 200 and removes that booking and
\* no other.
C12_Delete ==
    [][\A id \in 1..(MaxBookings + 1) :
          Delete(id, "none")
          => IF id \notin DOMAIN bookings
             THEN resp'.code = 404 /\ bookings' = bookings
             ELSE /\ resp'.code = 200
                  /\ DOMAIN bookings' = (DOMAIN bookings) \ {id}
                  /\ OthersKept(id)]_vars

\* the first of two bookings has been deleted and the second is still there
C12_Witness ==
    /\ resp.op = "delete" /\ resp.code = 200 /\ resp.id = 1
    /\ DOMAIN bookings = {2}

\* C13: UpdateStatus answers 400 for a status that is missing or not one of
\* pending, success, failed, expired, and 404 for an id no booking has, and
\* changes no booking in either case; otherwise it answers 200 and sets the
\* payment_status of that booking, and nothing else, to the requested value.
C13_UpdateStatus ==
    [][\A in \in StatusInputs :
          (in[3] = "none" /\ UpdateStatus(in[1], in[2], in[3]))
          => IF in[2] \notin {"pending", "success", "failed", "expired"}
             THEN resp'.code = 400 /\ bookings' = bookings
             ELSE IF in[1] \notin DOMAIN bookings
             THEN resp'.code = 404 /\ bookings' = bookings
             ELSE /\ resp'.code = 200
                  /\ DOMAIN bookings' = DOMAIN bookings
                  /\ OnlyStatusSet(in[1], in[2])
                  /\ OthersKept(in[1])]_vars

\* UpdateStatus has set one of two bookings to failed, the other being success
C13_Witness ==
    /\ resp.op = "status" /\ resp.code = 200 /\ resp.status = "failed"
    /\ DOMAIN bookings = {1, 2}
    /\ StatusOf(bookings, resp.id) = "failed"
    /\ \E j \in DOMAIN bookings : StatusOf(bookings, j) = "success"

\* C14: when sendPdfEmail has thrown, CreateOffline has still answered 200
\* with its booking in the table as success, and the success callback has
\* still redirected to the success page with the booking carrying its token
\* set to success.
C14_MailFailure ==
    resp.mail = "failed"
    => /\ resp.op \in {"offline", "success_cb"}
       /\ resp.op = "offline"
          => /\ resp.code = 200
             /\ resp.status = "success"
             /\ resp.id \in DOMAIN bookings
             /\ StatusOf(bookings, resp.id) = "success"
       /\ resp.op = "success_cb"
          => /\ resp.code = 302
             /\ resp.loc = [outcome |-> "success", tok |-> resp.tok]
             /\ \A i \in DOMAIN bookings :
                   bookings[i].payment_txn_id = resp.tok
                   => StatusOf(bookings, i) = "success"

\* the mail of the second offline booking has failed; both bookings are in
\* the table as success
C14_Witness ==
    /\ resp.mail = "failed" /\ resp.op = "offline" /\ resp.code = 200
    /\ resp.id = 2
    /\ StatusOf(bookings, 1) = "success"
    /\ StatusOf(bookings, 2) = "success"

\* C15 as stated: the response of CreateOffline and the redirect of the
\* success callback go out before or regardless of the relay's answer: no
\* handler has its write done and its response held back for the relay.
C15_FireAndForget == awaiting = {}

\* C16: a success callback for a token answers, and leaves the table, the
\* same whatever its body: every step of a callback with one body is a step
\* of the callback with any other body, sets the bookings carrying the token
\* to success and redirects to the success page.
C16_BodyIgnored ==
    [][\A t \in CallbackTokens : \A b1 \in CallbackBodies :
          SuccessCallback(t, b1, "none")
          => /\ \A b2 \in CallbackBodies : SuccessCallback(t, b2, "none")
             /\ \A i \in DOMAIN bookings :
                   bookings[i].payment_txn_id = t
                   => StatusOf(bookings', i) = "success"
             /\ resp'.loc = [outcome |-> "success", tok |-> t]]_vars

\* a callback has set a booking that was pending or expired to success
C16_Witness ==
    /\ resp.op = "success_cb" /\ resp.threw = "none"
    /\ resp.loc.outcome = "success"
    /\ \E i \in DOMAIN bookings :
          /\ bookings[i].payment_txn_id = resp.tok
          /\ bookings[i].payment_txn_id[1] = "PAYU"
          /\ StatusOf(bookings, i) = "success"

\* C18: CreateOffline with a body that passes validation and names an
\* accommodation that does not exist answers 404, adds no booking and does
\* not call sendPdfEmail.
C18_NoAccommodation ==
    [][\A req \in MailRequests :
          /\ CreateOffline(req, "none")
          /\ offlineRejection(req) = ""
          /\ req.accommodation_id \notin DOMAIN accommodations
          => /\ resp'.code = 404
             /\ bookings' = bookings
             /\ resp'.mail = "none"
             /\ awaiting' = awaiting]_vars

\* CreateOffline has answered 404 with a booking already in the table
C18_Witness ==
    /\ resp.op = "offline" /\ resp.code = 404
    /\ resp.mail = "none"
    /\ DOMAIN bookings # {}

\* C17 as stated: a Create whose INSERT hits the uniqueness constraint on the
\* token answers 409, one whose INSERT or commit throws otherwise answers
\* 500, and neither adds a booking.
C17_ConflictAnswer ==
    [][\A f \in {"dup", "insert", "commit"} :
          Create(BaseRequest, f)
          => /\ resp'.code = IF f = "dup" THEN 409 ELSE 500
             /\ bookings' = bookings]_vars

\* C19 as stated: in the production configuration no answer with an error
\* status carries the text of the error that was caught.
C19_NoDetailInProduction ==
    (NODE_ENV = "production" /\ resp.code >= 400) => ~resp.detail

\* C20 as stated: Initiate answers 400 and changes no booking unless the
\* amount is positive and the phone, its non-digits stripped, has exactly ten
\* digits.
C20_TenDigitPhone ==
    [][\A req \in PayuRequests :
          /\ InitiateCheck(req, "none")
          /\ ~ /\ req.amount > 0
               /\ "phone" \notin req.absent
               /\ Len(cleanPhone(req.phone)) = 10
          => /\ resp'.code = 400
             /\ bookings' = bookings
             /\ initiating' = initiating]_vars

\* C21: a failed sweep leaves the sweeper running (the timer stays armed, so
\* the next scheduled run takes place), and a booking that is pending and
\* older than one hour does not stay so for ever: a later successful sweep
\* sets it to expired unless something else moved it first.
C21_SweeperSurvives ==
    /\ [][(resp'.op = "sweep" /\ resp'.code = 500) => timer' = "armed"]_vars
    /\ \A i \in Ids :
          (i \in DOMAIN bookings /\ Stale(bookings[i]))
              ~> (i \in DOMAIN bookings /\ StatusOf(bookings, i) # "pending")

\* a sweep has just failed while a stale pending booking waits for it
C21_Witness ==
    /\ resp.op = "sweep" /\ resp.code = 500
    /\ \E i \in DOMAIN bookings : Stale(bookings[i])

\* C26: /payments/payu writes its token only onto a booking that is pending
\* at the moment of the write, and the write leaves every booking's
\* payment_status as it was, whatever ran between its SELECT and its UPDATE.
C26_InitiateKeepsStatus ==
    [][\A id \in Ids :
          InitiateWrite(id, "none")
          => /\ StatusOf(bookings, id) = "pending"
             /\ \A i \in DOMAIN bookings :
                   StatusOf(bookings', i) = StatusOf(bookings, i)]_vars

\* C27: a redirect of the success callback to /payment/success/t means some
\* booking carries the token t and is in status success.
C27_SuccessHasBooking ==
    (resp.op = "success_cb" /\ resp.loc.outcome = "success")
    => \E i \in DOMAIN bookings :
          /\ bookings[i].payment_txn_id = resp.loc.tok
          /\ StatusOf(bookings, i) = "success"

\* C25: no handler gives its connection back to the pool with a transaction
\* still open: each beginTransaction is followed by a commit or a rollback
\* before the release.
C25_NoOpenTransaction ==
    resp.conn # "releasedInTx"

\* C22: a handler that has answered has given its connection back to the
\* pool, whatever path it took.
C22_ConnectionReleased ==
    resp.conn \notin {"held", "heldInTx"}

\* C23: an accommodation update that commits leaves every field its body
\* does not carry at the value the row has at that moment, and sets the
\* others to the body's values: no update committed while the request was
\* in flight is undone by it.
C23_NoLostUpdate ==
    [][\A e \in editing :
          (UpdateAccWrite(e, "none") /\ resp'.code = 200)
          => \A f \in DOMAIN accommodations[e.id] :
                accommodations'[e.id][f] =
                    IF f \in e.body.has THEN e.body[f]
                    ELSE accommodations[e.id][f]]_vars

\* an update that had to wait for the row has committed, and the row
\* carries its change and the change of the update it waited for
C23_Witness ==
    /\ resp.op = "acc_update" /\ resp.code = 200 /\ resp.val = 1
    /\ accommodations[resp.id].name = "n1"
    /\ accommodations[resp.id].price = 2

\* C24: after DELETE /accommodations/:id answers success the accommodation
\* and the bookings that reference it are gone and nothing else is; after
\* any other answer both tables are as before.
C24_DeleteAllOrNothing ==
    [][\A id \in AccIdInputs, f \in DeleteFails :
          DeleteAccommodation(id, f)
          => IF resp'.code = 200
             THEN /\ id \notin DOMAIN accommodations'
                  /\ \A i \in DOMAIN bookings' : bookings'[i].accommodation_id # id
                  /\ \A i \in DOMAIN bookings :
                        bookings[i].accommodation_id # id
                        => i \in DOMAIN bookings' /\ bookings'[i] = bookings[i]
                  /\ \A a \in DOMAIN accommodations \ {id} :
                        a \in DOMAIN accommodations'
                        /\ accommodations'[a] = accommodations[a]
             ELSE /\ bookings' = bookings
                  /\ accommodations' = accommodations]_vars

\* a delete has answered success and took a booking with it, while a
\* booking of another accommodation is still there
C24_Witness ==
    /\ resp.op = "acc_delete" /\ resp.code = 200
    /\ \E i \in 1..(nextId - 1) : i \notin DOMAIN bookings
    /\ DOMAIN bookings # {}

\* C28: /manualMailer answers 200 exactly when the mail was handed to the
\* relay without error.
C28_MailerAnswer ==
    resp.op = "mailer" => (resp.code = 200 <=> resp.mail = "sent")

\* C29: no response of a user endpoint carries the stored password hash of
\* a user.
C29_NoPasswordHash ==
    resp.op \in {"users_list", "users_get", "users_create", "users_update",
                 "users_delete", "users_status"}
    => \A cell \in resp.body : \A i \in DOMAIN users :
          cell[3] # users[i].password

\* C30: a GET of /accommodations/stats is answered by the statistics
\* handler with the aggregates.
C30_StatsRouted ==
    [][\A f \in Failing :
          Get(<<"accommodations", "stats">>, f)
          => /\ resp'.op = "acc_stats"
             /\ f = "none" => /\ resp'.code = 200
                              /\ resp'.body = statsRow(accommodations)]_vars


============================================================================
